---- MODULE Spec2Model ----
(***************************************************************************)
(* Model of the report generator (client_credit_union/report_generator):   *)
(* the product-category classifier, the officer-name normalisation, the    *)
(* credit-pull reconciler of report 3, the context builders, the image     *)
(* directory shared by the report variants, and the batch driver main().   *)
(*                                                                         *)
(* Text is modelled as a sequence of one-character strings, so that        *)
(* upper(), lower(), strip(), split() and the `in` substring test are      *)
(* computed the way Python computes them.  A nullable value is a record    *)
(* [isNull, s].  A Python exception is a value of the `err` field of the   *)
(* result record ("none" when the call returned).                          *)
(***************************************************************************)
EXTENDS Integers, Sequences, FiniteSets, TLC

(***************************************************************************)
(* Bounds of the model.                                                    *)
(***************************************************************************)
MaxFrags == 2
MaxNameLen == 5
MaxCredit == 2
MaxLoans == 2

VARIABLES
  \* ---- product-category classifier (report_1_2 / report_4 / report_5) ----
  productType,   \* the value handed to map_product_type (nullable text)
  cat12,         \* result of report_1_2.preprocess.map_product_type
  cat4,          \* result of report_4.preprocess.map_product_type
  cat5,          \* result of report_5.preprocess.map_product_type
  \* ---- officer-name normalisation (report_3/preprocess.py) ----
  rawName,       \* a raw officer name as the ledger or field 317 holds it
  fl,            \* first_last(rawName)
  creditKey,     \* 'Normalized Name' derived on the credit-ledger side
  loanKey,       \* 'Normalized Name' derived on the loan side
  \* ---- credit-pull reconciler (report_3/preprocess.py preprocess) ----
  creditRows,    \* rows of the credit sheet: officer name, one cell per scenario
  loans,         \* the loan snapshot: folder and the fields 317, ORGID, 2
  merged,        \* what preprocess returns (the merged table) or raises
  \* ---- preprocessing and context statistics of the report variants ----
  loan_df,       \* report_1_2 preprocess_json: the flattened table or the error
  closed_df4,    \* report_4 preprocess: the Closed loans or the error
  closed_df5,    \* report_5 preprocess: the Closed loans or the error
  context3,      \* report_3 get_template_context: the statistics or the error
  context4,      \* report_4 get_template_context: the statistics or the error
  context5,      \* report_5 get_template_context: the statistics or the error
  branch_table,  \* report_3 generate_closed_pulls_by_branch_table: its rows
  \* ---- the images directory and the layout configuration ----
  imagesDir,     \* stems of the PNG files in cfg.path.images
  layout,        \* cfg.layout: per-variant width rules and the custom widths
  imgContext,    \* what add_images_context returned or raised, and for whom
  \* ---- main(): all reports, one after the other ----
  batchPc,       \* index in Variants of the next report main() runs; 6 = returned
  batchErr,      \* the exception that left main(), "none" while there is none
  attempted,     \* variants whose run() was called
  produced,      \* variants whose document was saved
  templates,     \* variants whose document template exists
  creditFile,    \* check_credit_data_file(credit_data_path)
  \* ---- two report runs side by side on one images directory ----
  wpc,           \* per worker: the step of run() it is about to take
  wctx,          \* per worker: the image part of the context it built
  wout,          \* per worker: the images of the document it saved
  \* ---- the Flattener (preprocess_json, loan_df_from_records) ----
  records,       \* the loan records as pd.read_json hands them over
  flat12,        \* report_1_2 preprocess_json: the flattened rows or the error
  flat3,         \* report_3 loan_df_from_records: the flattened rows or the error
  \* ---- the top-N tables (report_3/tables.py, report_1_2/plots.py) ----
  table_df,      \* the table the top-N selections read, with its row index
  top30_table,   \* generate_loan_officer_by_efficiency_table: the rows selected
  top30,         \* generate_closed_pulls_table: the rows selected
  pareto_top30,  \* plot_loan_officer_pareto: the groups selected
  \* ---- the retrieval (data_retriever.py) ----
  responses,     \* per folder, what the API answers for each of its loans
  ret_pc,        \* where retrieve_loan_field_data is: state, folder, loan
  requested,     \* the loans a field request was sent for, in order
  failed_log,    \* the loans reported as failed
  loan_field_data, \* the records collected
  output_file,   \* the output file: written or not, and its content
  \* ---- re-running a variant (report_1_2/generator.py run) ----
  rerun_pc,      \* "start", "partial" after an interrupted run, "done" after the re-run
  rerun_result,  \* what the re-run did: variant, error, output path, context
  \* ---- the volume charts (report_1_2/plots.py, report_4/plots.py) ----
  volume_by_branch, \* plot_volume_by_branch: the grouped table it draws
  closed_loan_volume, \* plot_closed_loan_volume: the grouped table it draws
  \* ---- main() dispatch: main.py ----
  report_n,      \* the report number argument, 0 when left empty
  all_reports,   \* the --all option (default cfg.app.all_reports)
  loan_file,     \* check_loan_data_file(loan_data_path)
  credit_file,   \* check_credit_data_file(credit_data_path)
  main_pc,       \* 0 entered, 1..5 next report of the all branch, 6 past the reports, 7 raised
  invoked,       \* report generators called so far
  main_log,      \* logging.info records about reports
  \* ---- the clock: datetime.now() ----
  today,         \* the date of the run, [y, m, d]
  \* ---- projected closings: report_1_2/plots.py ----
  projected_closings, \* grouped of plot_projected_closings, with the average
  \* ---- reporting period: date_utils.py, data_retriever.py ----
  labels,        \* get_last_month_year_labels(): [month, year], <<>> before the call
  date_range     \* get_last_month_date_range(): [first, last], <<>> before the call

clsVars == <<productType, cat12, cat4, cat5>>
nameVars == <<rawName, fl, creditKey, loanKey>>
recVars == <<creditRows, loans, merged>>
ctxVars == <<loan_df, closed_df4, closed_df5, context3, context4, context5, branch_table>>
imgVars == <<imagesDir, layout, imgContext>>
batchVars == <<batchPc, batchErr, attempted, produced, templates, creditFile>>
workerVars == <<wpc, wctx, wout>>
flatVars == <<records, flat12, flat3>>
topVars == <<table_df, top30_table, top30, pareto_top30>>
retVars == <<responses, ret_pc, requested, failed_log, loan_field_data, output_file>>
rerunVars == <<rerun_pc, rerun_result>>
plotVars == <<volume_by_branch, closed_loan_volume>>
mainVars == <<report_n, all_reports, loan_file, credit_file, main_pc, invoked, main_log>>
clockVars == <<today>>
projVars == <<projected_closings>>
labelVars == <<labels, date_range>>
vars == <<productType, cat12, cat4, cat5, rawName, fl, creditKey, loanKey,
          creditRows, loans, merged,
          loan_df, closed_df4, closed_df5, context3, context4, context5, branch_table,
          imagesDir, layout, imgContext,
          batchPc, batchErr, attempted, produced, templates, creditFile,
          wpc, wctx, wout,
          records, flat12, flat3,
          table_df, top30_table, top30, pareto_top30,
          responses, ret_pc, requested, failed_log, loan_field_data, output_file,
          rerun_pc, rerun_result,
          volume_by_branch, closed_loan_volume,
          report_n, all_reports, loan_file, credit_file, main_pc, invoked, main_log,
          today,
          projected_closings,
          labels, date_range>>

(***************************************************************************)
(* Text helpers (Python str semantics).                                    *)
(***************************************************************************)
LowerLetters == <<"a","b","c","d","e","f","g","h","i","j","k","l","m",
                  "n","o","p","q","r","s","t","u","v","w","x","y","z">>
UpperLetters == <<"A","B","C","D","E","F","G","H","I","J","K","L","M",
                  "N","O","P","Q","R","S","T","U","V","W","X","Y","Z">>
Digits == <<"0","1","2","3","4","5","6","7","8","9">>

UpperChar(c) ==
  IF \E i \in 1..Len(LowerLetters) : LowerLetters[i] = c
  THEN UpperLetters[CHOOSE i \in 1..Len(LowerLetters) : LowerLetters[i] = c]
  ELSE c

LowerChar(c) ==
  IF \E i \in 1..Len(UpperLetters) : UpperLetters[i] = c
  THEN LowerLetters[CHOOSE i \in 1..Len(UpperLetters) : UpperLetters[i] = c]
  ELSE c

Upper(s) == [i \in 1..Len(s) |-> UpperChar(s[i])]
Lower(s) == [i \in 1..Len(s) |-> LowerChar(s[i])]

\* Python `sub in s`
Contains(sub, s) ==
  \E i \in 0..(Len(s) - Len(sub)) : SubSeq(s, i + 1, i + Len(sub)) = sub

Null == [isNull |-> TRUE, s |-> <<>>]
Text(s) == [isNull |-> FALSE, s |-> s]

\* Python str(value): None prints as the text None
Str(v) == IF v.isNull THEN <<"N","o","n","e">> ELSE v.s

(***************************************************************************)
(* Results of calls that may raise.                                        *)
(***************************************************************************)
Ok(s) == [err |-> "none", s |-> s]
Raise(e) == [err |-> e, s |-> <<>>]
Unset == [err |-> "unset", s |-> <<>>]

\* a nullable number (None / NaN is the undefined marker)
NullNum == [isNull |-> TRUE, n |-> 0]
Num(n) == [isNull |-> FALSE, n |-> n]

\* the result of a call that returns a table
OkRows(rows) == [err |-> "none", rows |-> rows]
RaiseRows(e) == [err |-> e, rows |-> <<>>]
UnsetRows == [err |-> "unset", rows |-> <<>>]

\* a context builder returns its values or raises
OkVals(v) == [err |-> "none", vals |-> v]
RaiseVals(e) == [err |-> e, vals |-> <<>>]
UnsetVals == [err |-> "unset", vals |-> <<>>]

\* add_images_context has not been called
NoImgContext == [report_prefix |-> "none", err |-> "unset", imgs |-> {}]

Range(f) == { f[i] : i \in DOMAIN f }

SeqsUpTo(S, n) == UNION { [1..k -> S] : k \in 0..n }

RECURSIVE SumOver(_, _)
SumOver(S, f) ==
  IF S = {} THEN 0
  ELSE LET x == CHOOSE y \in S : TRUE IN f[x] + SumOver(S \ {x}, f)

Min(S) == CHOOSE x \in S : \A y \in S : x <= y

\* Python compares texts character by character, by code point
CharOrder ==
  <<"\t", " ", "$", ",", "-", ".", "/">> \o Digits \o UpperLetters \o LowerLetters
CharRank(c) == CHOOSE i \in 1..Len(CharOrder) : CharOrder[i] = c

LexLess(a, b) ==
  \E i \in 1..(Len(a) + 1) :
    /\ \A j \in 1..(i - 1) : j <= Len(b) /\ a[j] = b[j]
    /\ i <= Len(b)
    /\ (i = Len(a) + 1 \/ CharRank(a[i]) < CharRank(b[i]))

\* the texts of S in ascending order
RECURSIVE SortedTexts(_)
SortedTexts(S) ==
  IF S = {} THEN <<>>
  ELSE LET m == CHOOSE x \in S : \A y \in S \ {x} : LexLess(x, y)
       IN <<m>> \o SortedTexts(S \ {m})

\* Python truthiness of a field value: None and the empty text are falsy
Truthy(v) == ~v.isNull /\ v.s # <<>>

(***************************************************************************)
(* Each specification below exercises one part of the program; the         *)
(* variables of the other parts then keep these values.                    *)
(***************************************************************************)
ClsIdle ==
  /\ productType = Null
  /\ cat12 = "unset"
  /\ cat4 = "unset"
  /\ cat5 = "unset"

NameIdle ==
  /\ rawName = <<"j">>
  /\ fl = Unset
  /\ creditKey = Unset
  /\ loanKey = Unset

RecIdle ==
  /\ creditRows = <<>>
  /\ loans = <<>>
  /\ merged = UnsetRows

CtxIdle ==
  /\ loan_df = UnsetRows
  /\ closed_df4 = UnsetRows
  /\ closed_df5 = UnsetRows
  /\ context3 = UnsetVals
  /\ context4 = UnsetVals
  /\ context5 = UnsetVals
  /\ branch_table = UnsetRows

ImgIdle ==
  /\ imagesDir = {}
  /\ layout = <<>>
  /\ imgContext = NoImgContext

BatchIdle ==
  /\ batchPc = 6
  /\ batchErr = "none"
  /\ attempted = {}
  /\ produced = {}
  /\ templates = {}
  /\ creditFile = FALSE

WorkerIdle ==
  /\ wpc = <<>>
  /\ wctx = <<>>
  /\ wout = <<>>

FlatIdle ==
  /\ records = <<>>
  /\ flat12 = UnsetRows
  /\ flat3 = UnsetRows

TopIdle ==
  /\ table_df = <<>>
  /\ top30_table = UnsetRows
  /\ top30 = UnsetRows
  /\ pareto_top30 = UnsetRows

RetIdle ==
  /\ responses = <<>>
  /\ ret_pc = [state |-> "idle", folder |-> 0, loan |-> 0]
  /\ requested = <<>>
  /\ failed_log = <<>>
  /\ loan_field_data = <<>>
  /\ output_file = [written |-> FALSE, data |-> <<>>]

RerunIdle ==
  /\ rerun_pc = "idle"
  /\ rerun_result = <<>>

PlotIdle ==
  /\ volume_by_branch = UnsetRows
  /\ closed_loan_volume = UnsetRows

MainIdle ==
  /\ report_n = 0
  /\ all_reports = FALSE
  /\ loan_file = FALSE
  /\ credit_file = FALSE
  /\ main_pc = 0
  /\ invoked = {}
  /\ main_log = <<>>

ClockIdle ==
  /\ today = [y |-> 1, m |-> 1, d |-> 1]

ProjIdle ==
  /\ projected_closings = [err |-> "unset", rows |-> <<>>, avg_volume |-> <<>>]

LabelIdle ==
  /\ labels = <<>>
  /\ date_range = <<>>

\* the parts outside G are idle
IdleExcept(G) ==
  /\ IF "cls" \in G THEN TRUE ELSE ClsIdle
  /\ IF "name" \in G THEN TRUE ELSE NameIdle
  /\ IF "rec" \in G THEN TRUE ELSE RecIdle
  /\ IF "ctx" \in G THEN TRUE ELSE CtxIdle
  /\ IF "img" \in G THEN TRUE ELSE ImgIdle
  /\ IF "batch" \in G THEN TRUE ELSE BatchIdle
  /\ IF "worker" \in G THEN TRUE ELSE WorkerIdle
  /\ IF "flat" \in G THEN TRUE ELSE FlatIdle
  /\ IF "top" \in G THEN TRUE ELSE TopIdle
  /\ IF "ret" \in G THEN TRUE ELSE RetIdle
  /\ IF "rerun" \in G THEN TRUE ELSE RerunIdle
  /\ IF "plot" \in G THEN TRUE ELSE PlotIdle
  /\ IF "main" \in G THEN TRUE ELSE MainIdle
  /\ IF "clock" \in G THEN TRUE ELSE ClockIdle
  /\ IF "proj" \in G THEN TRUE ELSE ProjIdle
  /\ IF "label" \in G THEN TRUE ELSE LabelIdle

\* a step of the parts in G leaves the other parts alone
UnchangedExcept(G) ==
  /\ IF "cls" \in G THEN TRUE ELSE UNCHANGED clsVars
  /\ IF "name" \in G THEN TRUE ELSE UNCHANGED nameVars
  /\ IF "rec" \in G THEN TRUE ELSE UNCHANGED recVars
  /\ IF "ctx" \in G THEN TRUE ELSE UNCHANGED ctxVars
  /\ IF "img" \in G THEN TRUE ELSE UNCHANGED imgVars
  /\ IF "batch" \in G THEN TRUE ELSE UNCHANGED batchVars
  /\ IF "worker" \in G THEN TRUE ELSE UNCHANGED workerVars
  /\ IF "flat" \in G THEN TRUE ELSE UNCHANGED flatVars
  /\ IF "top" \in G THEN TRUE ELSE UNCHANGED topVars
  /\ IF "ret" \in G THEN TRUE ELSE UNCHANGED retVars
  /\ IF "rerun" \in G THEN TRUE ELSE UNCHANGED rerunVars
  /\ IF "plot" \in G THEN TRUE ELSE UNCHANGED plotVars
  /\ IF "main" \in G THEN TRUE ELSE UNCHANGED mainVars
  /\ IF "clock" \in G THEN TRUE ELSE UNCHANGED clockVars
  /\ IF "proj" \in G THEN TRUE ELSE UNCHANGED projVars
  /\ IF "label" \in G THEN TRUE ELSE UNCHANGED labelVars

(***************************************************************************)
(* Officer-name normalisation: report_3/preprocess.py first_last.          *)
(***************************************************************************)
IsSpace(c) == c \in {" ", "\t"}

RECURSIVE LStrip(_)
LStrip(s) == IF s # <<>> /\ IsSpace(Head(s)) THEN LStrip(Tail(s)) ELSE s

RECURSIVE RStrip(_)
RStrip(s) ==
  IF s # <<>> /\ IsSpace(s[Len(s)]) THEN RStrip(SubSeq(s, 1, Len(s) - 1)) ELSE s

\* Python str.strip()
Strip(s) == RStrip(LStrip(s))

\* Python str.split(): the maximal runs of non-whitespace characters
RECURSIVE SplitFrom(_, _, _)
SplitFrom(s, cur, acc) ==
  IF s = <<>> THEN (IF cur = <<>> THEN acc ELSE Append(acc, cur))
  ELSE IF IsSpace(Head(s))
       THEN SplitFrom(Tail(s), <<>>, IF cur = <<>> THEN acc ELSE Append(acc, cur))
       ELSE SplitFrom(Tail(s), Append(cur, Head(s)), acc)

Split(s) == SplitFrom(s, <<>>, <<>>)

\* a variant that joins the first token with the second instead of the last
first_last_SecondToken(name) ==
  LET parts == Split(Lower(Strip(name))) IN
  IF Len(parts) > 1 THEN Ok(parts[1] \o <<" ">> \o parts[2])
  ELSE IF Len(parts) = 0 THEN Raise("IndexError")
  ELSE Ok(parts[1])

\* first_last(name): parts[0] of an empty list raises IndexError
first_last(name) ==
  LET parts == Split(Lower(Strip(name))) IN
  IF Len(parts) > 1 THEN Ok(parts[1] \o <<" ">> \o parts[Len(parts)])
  ELSE IF Len(parts) = 0 THEN Raise("IndexError")
  ELSE Ok(parts[1])

\* first_last applied to the result of an earlier call
first_last_of(r) == IF r.err = "none" THEN first_last(r.s) ELSE r

\* credit side: .str.strip().str.lower(), groupby('Loan Officer'), then
\* credit_totals['Loan Officer'].apply(first_last)
CreditSideKey(raw) == first_last(Lower(Strip(raw)))

\* loan side: first_last(loan['fields']['317']), value_counts(), then
\* closed_per_officer['Loan Officer'].apply(first_last)
LoanSideKey(raw) == first_last_of(first_last(raw))

NameChars == {"J", "j", "D", "d", " "}

\* every non-empty text over NameChars up to MaxNameLen characters: a cell
\* of the ledger or a truthy field 317
NameInputs == UNION { [1..n -> NameChars] : n \in 1..MaxNameLen }

NameInit ==
  /\ rawName \in NameInputs
  /\ fl = Unset
  /\ creditKey = Unset
  /\ loanKey = Unset
  /\ IdleExcept({"name"})

NormalizeName ==
  /\ fl = Unset
  /\ fl' = first_last(rawName)
  /\ creditKey' = CreditSideKey(rawName)
  /\ loanKey' = LoanSideKey(rawName)
  /\ UNCHANGED rawName
  /\ UnchangedExcept({"name"})

NameNext == NormalizeName
SpecName == NameInit /\ [][NameNext]_vars

\* the whitespace-separated tokens of the raw name, letter case untouched
RawTokens == Split(rawName)

\* C3 (as amended): two or more tokens give lowercase(first) + " " +
\* lowercase(last); a single-token name gives that token lower-cased and
\* without the surrounding whitespace.
C3_FirstLastLowercased ==
  (fl # Unset /\ Len(RawTokens) >= 1) =>
    /\ fl.err = "none"
    /\ Len(RawTokens) >= 2 =>
         fl.s = Lower(RawTokens[1]) \o <<" ">> \o Lower(RawTokens[Len(RawTokens)])
    /\ Len(RawTokens) = 1 => fl.s = Lower(RawTokens[1])

\* C3 (as stated): two or more tokens give lowercase(first) + " " +
\* lowercase(last), and a single-token name is returned unchanged.
C3_SingleTokenUnchanged ==
  (fl # Unset /\ Len(RawTokens) >= 1) =>
    /\ fl.err = "none"
    /\ Len(RawTokens) >= 2 =>
         fl.s = Lower(RawTokens[1]) \o <<" ">> \o Lower(RawTokens[Len(RawTokens)])
    /\ Len(RawTokens) = 1 => fl.s = RawTokens[1]

\* a three-token mixed-case name has lost its middle token
C3_Witness ==
  /\ rawName = <<"J", " ", "d", " ", "D">>
  /\ fl = Ok(<<"j", " ", "d">>)

\* C4: the key derived on the credit side equals the key derived on the
\* loan side, and a key is yielded (no call raises) for every name either
\* side can hold.
C4_SameKeyOnBothSides ==
  fl # Unset =>
    /\ creditKey.err = "none"
    /\ loanKey.err = "none"
    /\ creditKey = loanKey

(***************************************************************************)
(* Product Category Classifier.                                            *)
(***************************************************************************)
kwFHA == <<"F","H","A">>
kwVA == <<"V","A">>
kwNONQM == <<"N","O","N"," ","Q","M">>
kwNON_QM == <<"N","O","N","-","Q","M">>
kwCONV == <<"C","O","N","V">>
kwCONVENTIONAL == <<"C","O","N","V","E","N","T","I","O","N","A","L">>

Categories == {"FHA", "VA", "Non-QM", "Conventional", "Other"}

\* report_1_2/preprocess.py map_product_type
map_product_type_12(value) ==
  LET val == Upper(Str(value)) IN
  IF Contains(kwFHA, val) THEN "FHA"
  ELSE IF Contains(kwVA, val) THEN "VA"
  ELSE IF Contains(kwNONQM, val) \/ Contains(kwNON_QM, val) THEN "Non-QM"
  ELSE IF Contains(kwCONV, val) \/ Contains(kwCONVENTIONAL, val) THEN "Conventional"
  ELSE "Other"

\* a copy that tests VA before FHA
map_product_type_4_VAFirst(value) ==
  LET val == Upper(Str(value)) IN
  IF Contains(kwVA, val) THEN "VA"
  ELSE IF Contains(kwFHA, val) THEN "FHA"
  ELSE IF Contains(kwNONQM, val) \/ Contains(kwNON_QM, val) THEN "Non-QM"
  ELSE IF Contains(kwCONV, val) \/ Contains(kwCONVENTIONAL, val) THEN "Conventional"
  ELSE "Other"

\* report_4/preprocess.py map_product_type
map_product_type_4(value) ==
  LET val == Upper(Str(value)) IN
  IF Contains(kwFHA, val) THEN "FHA"
  ELSE IF Contains(kwVA, val) THEN "VA"
  ELSE IF Contains(kwNONQM, val) \/ Contains(kwNON_QM, val) THEN "Non-QM"
  ELSE IF Contains(kwCONV, val) \/ Contains(kwCONVENTIONAL, val) THEN "Conventional"
  ELSE "Other"

\* report_5/preprocess.py map_product_type
map_product_type_5(value) ==
  LET val == Upper(Str(value)) IN
  IF Contains(kwFHA, val) THEN "FHA"
  ELSE IF Contains(kwVA, val) THEN "VA"
  ELSE IF Contains(kwNONQM, val) \/ Contains(kwNON_QM, val) THEN "Non-QM"
  ELSE IF Contains(kwCONV, val) \/ Contains(kwCONVENTIONAL, val) THEN "Conventional"
  ELSE "Other"

\* fragments the product-type inputs are built from
ProductFrags ==
  { <<"F","H","A">>, <<"f","h","a">>, <<"F">>, <<"h","A">>,
    <<"V","A">>, <<"v">>, <<"a">>,
    <<"N","o","n"," ","Q","M">>, <<"n","o","n","-","q","m">>, <<"N","O","N">>,
    <<"C","o","n","v">>, <<"c","o","n","v","e","n","t","i","o","n","a","l">>,
    <<" ">>, <<"J","u","m","b","o">> }

RECURSIVE FragStrings(_)
FragStrings(n) ==
  IF n = 0 THEN { <<>> }
  ELSE LET shorter == FragStrings(n - 1) IN
       shorter \cup { s \o f : s \in shorter, f \in ProductFrags }

ProductInputs == { Null } \cup { Text(s) : s \in FragStrings(MaxFrags) }

ClassifyInit ==
  /\ productType \in ProductInputs
  /\ cat12 = "unset"
  /\ cat4 = "unset"
  /\ cat5 = "unset"
  /\ IdleExcept({"cls"})

\* df["product_category"] = df["product_type"].apply(map_product_type), in
\* each of the three preprocess modules
Classify ==
  /\ cat12 = "unset"
  /\ cat12' = map_product_type_12(productType)
  /\ cat4' = map_product_type_4(productType)
  /\ cat5' = map_product_type_5(productType)
  /\ UNCHANGED productType
  /\ UnchangedExcept({"cls"})

ClassifyNext == Classify
SpecClassify == ClassifyInit /\ [][ClassifyNext]_vars

\* the upper-cased text the rules are matched against
C1_Val == Upper(Str(productType))

\* C1: the category is the one of the first matching rule in the order
\* FHA, VA, Non-QM (NON QM / NON-QM), Conventional (CONV), else Other; any
\* input containing FHA in any case yields FHA; a null input yields Other;
\* the three copies agree.
C1_FirstMatchRule ==
  cat12 # "unset" =>
    /\ cat12 \in Categories
    /\ cat4 = cat12
    /\ cat5 = cat12
    /\ Contains(kwFHA, C1_Val) => cat12 = "FHA"
    /\ (~Contains(kwFHA, C1_Val) /\ Contains(kwVA, C1_Val)) => cat12 = "VA"
    /\ ( /\ ~Contains(kwFHA, C1_Val)
         /\ ~Contains(kwVA, C1_Val)
         /\ (Contains(kwNONQM, C1_Val) \/ Contains(kwNON_QM, C1_Val)) )
       => cat12 = "Non-QM"
    /\ ( /\ ~Contains(kwFHA, C1_Val)
         /\ ~Contains(kwVA, C1_Val)
         /\ ~Contains(kwNONQM, C1_Val)
         /\ ~Contains(kwNON_QM, C1_Val)
         /\ Contains(kwCONV, C1_Val) )
       => cat12 = "Conventional"
    /\ ( /\ ~Contains(kwFHA, C1_Val)
         /\ ~Contains(kwVA, C1_Val)
         /\ ~Contains(kwNONQM, C1_Val)
         /\ ~Contains(kwNON_QM, C1_Val)
         /\ ~Contains(kwCONV, C1_Val) )
       => cat12 = "Other"
    /\ productType.isNull => cat12 = "Other"

\* a lower-case fha followed by VA has been classified as FHA by all copies
C1_Witness ==
  /\ productType = Text(<<"f","h","a","V","A">>)
  /\ cat12 = "FHA"
  /\ cat4 = "FHA"
  /\ cat5 = "FHA"

(***************************************************************************)
(* Texts the inputs are drawn from: folder names, officer names, branch    *)
(* identifiers and amount texts.                                           *)
(***************************************************************************)
FolderClosed2025 == <<"C","l","o","s","e","d"," ","2","0","2","5">>
FolderClosed2024 == <<"C","l","o","s","e","d"," ","2","0","2","4">>
FolderActive == <<"A","c","t","i","v","e"," ","P","i","p","e","l","i","n","e">>
FolderArchive == <<"A","r","c","h","i","v","e">>

NameJoADo == <<"J","o"," ","A"," ","D","o">>
NameJoDoLower == <<"j","o"," ","d","o">>
NameJoDo == <<"J","o"," ","D","o">>
NameAL == <<" ","A","L">>
NameAl == <<"a","l">>
NameBlank == <<" ">>
BranchB1 == <<"B","1">>
BranchB2 == <<"B","2">>
Amount1200 == <<"$","1",",","2","0","0">>
Amount300 == <<"3","0","0",".","5","0">>
AmountNA == <<"N","/","A">>
ProductFHA == <<"F","H","A"," ","3","0">>
ProductConv == <<"C","o","n","v">>
ProductVA == <<"V","A">>
NameAnn == <<"A","n","n">>
NameBo == <<"B","o">>
Date0101 == <<"0","1","/","0","1","/","2","0","2","5">>
Date0110 == <<"0","1","/","1","0","/","2","0","2","5">>
Date0110Time == Date0110 \o <<" ","0","9",":","3","0">>
DateSlashes == <<"/","/">>

(***************************************************************************)
(* Amount coercion: float(str(v).replace('$','').replace(',','').strip()). *)
(* Amounts are kept in cents.  The texts float() accepts are modelled as   *)
(* [sign] digits [. digits]; anything else raises ValueError.              *)
(***************************************************************************)
OkNum(n) == [err |-> "none", n |-> n]
RaiseNum(e) == [err |-> e, n |-> 0]

IsDigit(c) == \E i \in 1..Len(Digits) : Digits[i] = c
DigitVal(c) == (CHOOSE i \in 1..Len(Digits) : Digits[i] = c) - 1
AllDigits(s) == \A i \in 1..Len(s) : IsDigit(s[i])

RECURSIVE DigitsVal(_)
DigitsVal(s) ==
  IF s = <<>> THEN 0
  ELSE DigitsVal(SubSeq(s, 1, Len(s) - 1)) * 10 + DigitVal(s[Len(s)])

\* str.replace(c, '') for every character c of cs
RemoveChars(s, cs) == SelectSeq(s, LAMBDA c : c \notin cs)

\* float(text), in cents
ParseFloat(text) ==
  LET s == Strip(text)
      signed == s # <<>> /\ s[1] \in {"-", "+"}
      body == IF signed THEN Tail(s) ELSE s
      dots == { i \in 1..Len(body) : body[i] = "." }
      d == IF dots = {} THEN Len(body) + 1 ELSE Min(dots)
      ip == SubSeq(body, 1, d - 1)
      fp == SubSeq(body, d + 1, Len(body))
      cents == DigitsVal(ip) * 100 + DigitsVal(SubSeq(fp \o <<"0", "0">>, 1, 2))
  IN IF \/ Cardinality(dots) > 1
        \/ ~AllDigits(ip)
        \/ ~AllDigits(fp)
        \/ (ip = <<>> /\ fp = <<>>)
     THEN RaiseNum("ValueError")
     ELSE OkNum(IF signed /\ s[1] = "-" THEN 0 - cents ELSE cents)

(***************************************************************************)
(* Credit-Pull Reconciler: report_3/preprocess.py preprocess.              *)
(***************************************************************************)
\* Python round(n / d, k) on the scaled dividend: nearest, ties to even
RoundHalfEven(n, d) ==
  LET q == n \div d
      r == n % d
  IN IF 2 * r < d THEN q
     ELSE IF 2 * r > d THEN q + 1
     ELSE IF q % 2 = 0 THEN q ELSE q + 1

\* a variant that reports a rate of 0 for an officer without credit pulls
close_rate_ZeroWithoutPulls(closed, pulls) ==
  IF pulls > 0 THEN Num(RoundHalfEven(closed * 1000, pulls)) ELSE Num(0)

\* 'Close Rate (%)' in tenths of a percent:
\* round((Closed Loans / Credit Pulls) * 100, 1) if Credit Pulls > 0 else None
close_rate(closed, pulls) ==
  IF pulls > 0 THEN Num(RoundHalfEven(closed * 1000, pulls)) ELSE NullNum

\* 'Loans per Pull' in hundredths:
\* round(Closed Loans / Credit Pulls, 2) if Credit Pulls > 0 else None
loans_per_pull(closed, pulls) ==
  IF pulls > 0 THEN Num(RoundHalfEven(closed * 100, pulls)) ELSE NullNum

\* w.capitalize()
Capitalize(w) == IF w = <<>> THEN w ELSE <<UpperChar(w[1])>> \o Lower(Tail(w))

RECURSIVE JoinWords(_)
JoinWords(ws) ==
  IF ws = <<>> THEN <<>>
  ELSE IF Len(ws) = 1 THEN ws[1]
  ELSE ws[1] \o <<" ">> \o JoinWords(Tail(ws))

\* ' '.join([w.capitalize() for w in x.split()])
display_name(x) == JoinWords([i \in 1..Len(Split(x)) |-> Capitalize(Split(x)[i])])

\* a variant that keeps the full ledger name as the key of the ledger side
normalized_name_FullName(name) == Ok(name)

\* the 'Normalized Name' column: .apply(first_last)
normalized_name(name) == first_last(name)

\* a variant that takes the last of the most frequent values
most_common_LastOnTie(x) ==
  LET vals == Range(x)
      Cnt(b) == Cardinality({ i \in 1..Len(x) : x[i] = b })
      First(b) == Min({ i \in 1..Len(x) : x[i] = b })
  IN CHOOSE b \in vals :
       \A c \in vals \ {b} :
         Cnt(b) > Cnt(c) \/ (Cnt(b) = Cnt(c) /\ First(b) > First(c))

\* Counter(x).most_common(1)[0][0] of a non-empty column: the most frequent
\* value, and of equally frequent ones the one met first
most_common(x) ==
  LET vals == Range(x)
      Cnt(b) == Cardinality({ i \in 1..Len(x) : x[i] = b })
      First(b) == Min({ i \in 1..Len(x) : x[i] = b })
  IN CHOOSE b \in vals :
       \A c \in vals \ {b} :
         Cnt(b) > Cnt(c) \/ (Cnt(b) = Cnt(c) /\ First(b) < First(c))

\* a variant that joins on the ledger side only (how="left")
merge_outer_Left(left_keys, right_keys) == left_keys

\* pd.merge(..., on="Normalized Name", how="outer"): the keys of the result
merge_outer(left_keys, right_keys) == left_keys \cup right_keys

preprocess(credit, lns) ==
  LET \* ---- credit sheet: strip/lower the name, melt, dropna, group ----
      namedRows == { i \in 1..Len(credit) : ~credit[i].name.isNull }
      FullName(i) == Lower(Strip(credit[i].name.s))
      credit_long ==
        { p \in UNION { { <<i, j>> : j \in DOMAIN credit[i].pulls } : i \in namedRows } :
            ~credit[p[1]].pulls[p[2]].isNull }
      cell == [p \in credit_long |-> credit[p[1]].pulls[p[2]].n]
      credit_names == { FullName(p[1]) : p \in credit_long }
      credit_totals ==
        [fn \in credit_names |->
           SumOver({ p \in credit_long : FullName(p[1]) = fn }, cell)]
      \* ---- closed loans per officer ----
      closed_loans == SelectSeq(lns, LAMBDA l : l.folder = FolderClosed2025)
      officer_loans == SelectSeq(closed_loans, LAMBDA l : Truthy(l.f317))
      closed_officers ==
        [i \in 1..Len(officer_loans) |-> first_last(officer_loans[i].f317.s)]
      closed_names == { closed_officers[i].s : i \in 1..Len(officer_loans) }
      closed_per_officer ==
        [n \in closed_names |->
           Cardinality({ i \in 1..Len(officer_loans) : closed_officers[i].s = n })]
      \* ---- normalized names and the outer merge ----
      credit_norm == [fn \in credit_names |-> normalized_name(fn)]
      closed_norm == [n \in closed_names |-> first_last(n)]
      credit_keys == { credit_norm[fn].s : fn \in credit_names }
      closed_keys == { closed_norm[n].s : n \in closed_names }
      credit_totals_grouped ==
        [k \in credit_keys |->
           SumOver({ fn \in credit_names : credit_norm[fn].s = k }, credit_totals)]
      closed_grouped ==
        [k \in closed_keys |->
           SumOver({ n \in closed_names : closed_norm[n].s = k }, closed_per_officer)]
      keys == merge_outer(credit_keys, closed_keys)
      Pulls(k) == IF k \in credit_keys THEN credit_totals_grouped[k] ELSE 0
      Closed(k) == IF k \in closed_keys THEN closed_grouped[k] ELSE 0
      \* ---- branch and amount per officer ----
      triplet_loans ==
        SelectSeq(closed_loans,
                  LAMBDA l : Truthy(l.f317) /\ Truthy(l.orgid) /\ Truthy(l.amount))
      tix == 1..Len(triplet_loans)
      tname == [i \in tix |-> first_last(triplet_loans[i].f317.s).s]
      tamount ==
        [i \in tix |-> ParseFloat(RemoveChars(Str(triplet_loans[i].amount), {"$", ","}))]
      tcents == [i \in tix |-> tamount[i].n]
      Of(k) == { i \in tix : tname[i] = k }
      \* the ORGID column of the group of k, in row order
      GroupOrgids(k) ==
        LET sel == SelectSeq([i \in tix |-> i], LAMBDA i : tname[i] = k)
        IN [j \in 1..Len(sel) |-> triplet_loans[sel[j]].orgid]
      officer_branch_map(k) == most_common(GroupOrgids(k))
      officer_amount_map(k) == SumOver(Of(k), tcents)
      Row(k) ==
        [ name |-> k,
          pulls |-> Pulls(k),
          closed |-> Closed(k),
          closeRate |-> close_rate(Closed(k), Pulls(k)),
          lpp |-> loans_per_pull(Closed(k), Pulls(k)),
          officer |-> display_name(k),
          orgid |-> IF Of(k) = {} THEN Null ELSE officer_branch_map(k),
          amount |-> IF Of(k) = {} THEN 0 ELSE officer_amount_map(k) ]
      indexError ==
        \/ \E i \in 1..Len(officer_loans) : closed_officers[i].err # "none"
        \/ \E fn \in credit_names : credit_norm[fn].err # "none"
        \/ \E n \in closed_names : closed_norm[n].err # "none"
      valueError == \E i \in tix : tamount[i].err # "none"
  IN IF indexError THEN RaiseRows("IndexError")
     ELSE IF valueError THEN RaiseRows("ValueError")
     ELSE OkRows([i \in 1..Cardinality(keys) |-> Row(SortedTexts(keys)[i])])

\* ---- inputs ----
\* rows of the credit sheet (two scenario columns)
LedgerPool ==
  { [name |-> Text(NameJoADo), pulls |-> <<Num(1), Num(2)>>],
    [name |-> Text(NameJoDoLower), pulls |-> <<Num(3), NullNum>>],
    [name |-> Text(NameJoDoLower), pulls |-> <<NullNum, NullNum>>],
    [name |-> Text(NameAL), pulls |-> <<Num(1), Num(2)>>],
    [name |-> Text(NameAl), pulls |-> <<Num(0), NullNum>>],
    [name |-> Null, pulls |-> <<Num(1), Num(2)>>] }

\* a loan of the snapshot: folder and the fields 317, ORGID, 2, 1401,
\* LoanTeamMember.Name.Underwriter, LoanTeamMember.Name.Branch Processor,
\* Log.MS.Date.Submittal, Log.MS.Date.Clear to Close,
\* Log.MS.Date.Sent to Branch LP
Loan(folder, f317, orgid, amount, f1401, underwriter, processor, submittal, ctc, sent) ==
  [ folder |-> folder, f317 |-> f317, orgid |-> orgid, amount |-> amount,
    f1401 |-> f1401, underwriter |-> underwriter, processor |-> processor,
    submittal |-> submittal, ctc |-> ctc, sent |-> sent ]

LoanJoDo ==
  Loan(FolderClosed2025, Text(NameJoDo), Text(BranchB1), Text(Amount1200),
       Text(ProductFHA), Text(NameAnn), Text(NameBo),
       Text(Date0101), Text(Date0110), Text(Date0101))
LoanJoADo ==
  Loan(FolderClosed2025, Text(NameJoADo), Text(BranchB2), Text(Amount300),
       Text(ProductConv), Null, Text(NameBlank),
       Text(DateSlashes), Text(Date0110), Text(<<>>))
LoanAlNoBranch ==
  Loan(FolderClosed2025, Text(NameAl), Null, Text(Amount1200),
       Text(ProductVA), Text(<<>>), Null,
       Null, Text(DateSlashes), Null)
LoanNoOfficer ==
  Loan(FolderClosed2025, Null, Text(BranchB1), Text(Amount300),
       Null, Text(NameAnn), Text(DateSlashes),
       Text(Date0110), Null, Text(DateSlashes))
LoanActive ==
  Loan(FolderActive, Text(NameJoDo), Text(BranchB1), Text(Amount1200),
       Text(ProductFHA), Text(NameAnn), Text(NameBo),
       Text(Date0101), Text(Date0110Time), Text(Date0101))
LoanBlankOfficer ==
  Loan(FolderClosed2025, Text(NameBlank), Text(BranchB1), Text(Amount300),
       Text(ProductConv), Text(NameAnn), Text(NameBo),
       Text(Date0101), Text(Date0110), Text(Date0101))
LoanBadAmount ==
  Loan(FolderClosed2025, Text(NameAl), Text(BranchB2), Text(AmountNA),
       Text(ProductVA), Text(NameAnn), Text(NameBo),
       Text(Date0101), Text(Date0110), Text(Date0101))
LoanClosed2024 ==
  Loan(FolderClosed2024, Text(NameAl), Text(BranchB2), Text(Amount1200),
       Text(ProductVA), Text(NameAnn), Text(NameBo),
       Text(Date0101), Text(Date0110), Text(Date0101))

\* loans of the snapshot
LoanPool ==
  { LoanJoDo, LoanJoADo, LoanAlNoBranch, LoanNoOfficer, LoanActive,
    LoanBlankOfficer, LoanBadAmount, LoanClosed2024 }

ReconcileInit ==
  /\ creditRows \in SeqsUpTo(LedgerPool, MaxCredit)
  /\ loans \in SeqsUpTo(LoanPool, MaxLoans)
  /\ merged = UnsetRows
  /\ IdleExcept({"rec"})

\* run() of report 3: preprocess(loan_json_path, credit_excel_path)
Preprocess3 ==
  /\ merged = UnsetRows
  /\ merged' = preprocess(creditRows, loans)
  /\ UNCHANGED <<creditRows, loans>>
  /\ UnchangedExcept({"rec"})

ReconcileNext == Preprocess3
SpecReconcile == ReconcileInit /\ [][ReconcileNext]_vars

\* ---- the claims' view of the inputs, taken row by row ----
\* the identity of a raw name (both sides lower-case first and last token)
IdentityOf(raw) == first_last(raw).s

\* ledger rows that carry at least one pull count under a name
LedgerEntries ==
  { i \in 1..Len(creditRows) :
      /\ ~creditRows[i].name.isNull
      /\ \E j \in DOMAIN creditRows[i].pulls : ~creditRows[i].pulls[j].isNull }

RowPulls(i) ==
  SumOver({ j \in DOMAIN creditRows[i].pulls : ~creditRows[i].pulls[j].isNull },
          [j \in DOMAIN creditRows[i].pulls |-> creditRows[i].pulls[j].n])

\* closed loans that carry an officer
OfficerLoans ==
  { i \in 1..Len(loans) : loans[i].folder = FolderClosed2025 /\ Truthy(loans[i].f317) }

Identities ==
  { IdentityOf(creditRows[i].name.s) : i \in LedgerEntries }
    \cup { IdentityOf(loans[i].f317.s) : i \in OfficerLoans }

\* C2: for every identity there is exactly one row; its Credit Pulls is the
\* sum of the pull counts of all ledger names of that identity and its
\* Closed Loans the number of closed loans under all loan-side names of
\* that identity.
C2_OneRowPerIdentity ==
  merged.err = "none" =>
    \A k \in Identities :
      /\ Cardinality({ i \in DOMAIN merged.rows : merged.rows[i].name = k }) = 1
      /\ \A r \in Range(merged.rows) :
           r.name = k =>
             /\ r.pulls =
                  SumOver({ i \in LedgerEntries : IdentityOf(creditRows[i].name.s) = k },
                          [i \in LedgerEntries |-> RowPulls(i)])
             /\ r.closed =
                  Cardinality({ i \in OfficerLoans : IdentityOf(loans[i].f317.s) = k })

\* 'Jo A Do' and 'jo do' of the ledger and 'Jo Do' of a closed loan ended
\* in one row with 6 pulls and 1 closed loan
C2_Witness ==
  /\ merged.err = "none"
  /\ creditRows = << [name |-> Text(NameJoADo), pulls |-> <<Num(1), Num(2)>>],
                     [name |-> Text(NameJoDoLower), pulls |-> <<Num(3), NullNum>>] >>
  /\ Len(loans) = 1
  /\ loans[1].f317 = Text(NameJoDo)
  /\ loans[1].folder = FolderClosed2025
  /\ \E r \in Range(merged.rows) : r.name = NameJoDoLower /\ r.pulls = 6 /\ r.closed = 1
  /\ Len(merged.rows) = 1

RECURSIVE SplitOn(_, _, _, _)
SplitOn(s, sep, cur, acc) ==
  IF s = <<>> THEN Append(acc, cur)
  ELSE IF Head(s) = sep THEN SplitOn(Tail(s), sep, <<>>, Append(acc, cur))
       ELSE SplitOn(Tail(s), sep, Append(cur, Head(s)), acc)

IsLeap(y) == (y % 4 = 0 /\ y % 100 # 0) \/ y % 400 = 0

DaysInMonth(y, m) ==
  IF m = 2 THEN (IF IsLeap(y) THEN 29 ELSE 28)
  ELSE IF m \in {4, 6, 9, 11} THEN 30 ELSE 31

Ordinal(y, m, d) ==
  365 * (y - 1) + ((y - 1) \div 4) - ((y - 1) \div 100) + ((y - 1) \div 400)
    + SumOver(1..(m - 1), [k \in 1..12 |-> DaysInMonth(y, k)]) + d

parse_date(date_str) ==
  IF date_str.isNull THEN NullNum
  ELSE LET parts == SplitOn(date_str.s, "/", <<>>, <<>>) IN
       IF \/ Len(parts) # 3
          \/ \E i \in 1..3 : parts[i] = <<>> \/ ~AllDigits(parts[i])
       THEN NullNum
       ELSE LET m == DigitsVal(parts[1])
                d == DigitsVal(parts[2])
                y == DigitsVal(parts[3])
            IN IF /\ Len(parts[1]) <= 2
                  /\ Len(parts[2]) <= 2
                  /\ Len(parts[3]) = 4
                  /\ y >= 1
                  /\ m \in 1..12
                  /\ d \in 1..DaysInMonth(y, m)
               THEN Num(Ordinal(y, m, d))
               ELSE NullNum

(***************************************************************************)
(* Preprocessing of reports 4 and 5 (report_4/preprocess.py,               *)
(* report_5/preprocess.py): flatten, coerce, keep the Closed loans.        *)
(***************************************************************************)
kwActive == <<"A","c","t","i","v","e">>
kwClosed == <<"C","l","o","s","e","d">>
TextUnassigned == <<"U","n","a","s","s","i","g","n","e","d">>

FirstIndex(sub, s) ==
  Min({ i \in 1..(Len(s) + 1) :
          i = Len(s) + 1 \/ (i + Len(sub) - 1 <= Len(s) /\ SubSeq(s, i, i + Len(sub) - 1) = sub) })

\* df["folder"].str.extract(r"(Active|Closed)"): the leftmost match
status_of(folder) ==
  LET a == FirstIndex(kwActive, folder)
      c == FirstIndex(kwClosed, folder)
  IN IF a > Len(folder) /\ c > Len(folder) THEN Null
     ELSE IF a < c THEN Text(kwActive) ELSE Text(kwClosed)

\* df["2"].replace("[\$,]", "", regex=True).astype(float) on one cell
loan_amount_of(cell) ==
  IF cell.isNull THEN [err |-> "none", v |-> NullNum]
  ELSE LET f == ParseFloat(RemoveChars(cell.s, {"$", ","})) IN
       [err |-> f.err, v |-> Num(f.n)]

\* .fillna("Unassigned").astype(str).str.strip().replace("", "Unassigned")
underwriter_of(cell) ==
  LET t == IF cell.isNull THEN TextUnassigned ELSE Strip(cell.s)
  IN IF t = <<>> THEN TextUnassigned ELSE t

\* .fillna("").str.strip().replace("", "Unassigned")
branch_processor_of(cell) ==
  LET t == IF cell.isNull THEN <<>> ELSE Strip(cell.s)
  IN IF t = <<>> THEN TextUnassigned ELSE t

\* report_4 preprocess: an empty snapshot has no column "2" (KeyError); an
\* amount float() rejects aborts the call (ValueError)
preprocess_4(lns) ==
  LET rowOf(l) ==
        [ folder |-> l.folder,
          loan_amount |-> loan_amount_of(l.amount).v,
          product_category |-> map_product_type_4(l.f1401),
          underwriter_raw |-> l.underwriter,
          underwriter |-> underwriter_of(l.underwriter),
          submittal_date |-> parse_date(l.submittal),
          clear_to_close |-> parse_date(l.ctc),
          status |-> status_of(l.folder) ]
      df == [i \in 1..Len(lns) |-> rowOf(lns[i])]
  IN IF lns = <<>> THEN RaiseRows("KeyError")
     ELSE IF \E i \in 1..Len(lns) : loan_amount_of(lns[i].amount).err # "none"
          THEN RaiseRows("ValueError")
     ELSE OkRows(SelectSeq(df, LAMBDA r : r.status = Text(kwClosed)))

\* report_5 preprocess
preprocess_5(lns) ==
  LET rowOf(l) ==
        [ folder |-> l.folder,
          loan_amount |-> loan_amount_of(l.amount).v,
          product_category |-> map_product_type_5(l.f1401),
          processor_raw |-> l.processor,
          branch_processor |-> branch_processor_of(l.processor),
          submittal_date |-> parse_date(l.submittal),
          clear_to_close |-> parse_date(l.ctc),
          status |-> status_of(l.folder) ]
      df == [i \in 1..Len(lns) |-> rowOf(lns[i])]
  IN IF lns = <<>> THEN RaiseRows("KeyError")
     ELSE IF \E i \in 1..Len(lns) : loan_amount_of(lns[i].amount).err # "none"
          THEN RaiseRows("ValueError")
     ELSE OkRows(SelectSeq(df, LAMBDA r : r.status = Text(kwClosed)))

(***************************************************************************)
(* The statistics of the context builders and the per-branch table.        *)
(***************************************************************************)
Count(sq, P(_)) == Cardinality({ i \in 1..Len(sq) : P(sq[i]) })

\* a variant in which a row lacking a date counts as 0 days
avg_sub_days_MissingAsZero(rows) ==
  LET both == { i \in 1..Len(rows) :
                  ~rows[i].submittal_date.isNull /\ ~rows[i].clear_to_close.isNull }
      days == [i \in 1..Len(rows) |-> rows[i].clear_to_close.n - rows[i].submittal_date.n]
  IN IF rows = <<>> THEN NullNum
     ELSE Num(RoundHalfEven(SumOver(both, days) * 10, Len(rows)))

\* round(days.mean(), 1) in tenths of a day; the mean of no row is NaN
avg_sub_days(rows) ==
  LET both == { i \in 1..Len(rows) :
                  ~rows[i].submittal_date.isNull /\ ~rows[i].clear_to_close.isNull }
      days == [i \in 1..Len(rows) |-> rows[i].clear_to_close.n - rows[i].submittal_date.n]
  IN IF both = {} THEN NullNum
     ELSE Num(RoundHalfEven(SumOver(both, days) * 10, Cardinality(both)))

\* round(part / whole * 100, k) with scale = 10^k: int / int raises
\* ZeroDivisionError when whole is 0
percent(part, whole, scale) ==
  IF whole = 0 THEN RaiseNum("ZeroDivisionError")
  ELSE OkNum(RoundHalfEven(part * 100 * scale, whole))

\* report_4/context.py get_template_context, the statistics
context_values_4(closed_df) ==
  LET df == SelectSeq(closed_df, LAMBDA r : r.folder = FolderClosed2025)
      cl_qtd == Len(df)
      cl_nosubdate_qtd == Count(df, LAMBDA r : r.submittal_date.isNull)
      cl_nosubdate_per == percent(cl_nosubdate_qtd, cl_qtd, 100)
      cl_unnamed_underw_qtd ==
        Count(df, LAMBDA r : r.underwriter_raw.isNull \/ r.underwriter_raw.s = <<>>)
      cl_unnamed_underw_per == percent(cl_unnamed_underw_qtd, cl_qtd, 10)
  IN IF cl_nosubdate_per.err # "none" THEN RaiseVals(cl_nosubdate_per.err)
     ELSE IF cl_unnamed_underw_per.err # "none" THEN RaiseVals(cl_unnamed_underw_per.err)
     ELSE OkVals([ cl_qtd |-> cl_qtd,
                   cl_underw_qtd |-> Cardinality({ df[i].underwriter : i \in 1..Len(df) }),
                   cl_nosubdate_qtd |-> cl_nosubdate_qtd,
                   cl_nosubdate_per |-> Num(cl_nosubdate_per.n),
                   cl_avg_sub_days |-> avg_sub_days(df),
                   cl_unnamed_underw_qtd |-> cl_unnamed_underw_qtd,
                   cl_unnamed_underw_per |-> Num(cl_unnamed_underw_per.n) ])

\* report_5/context.py get_template_context, the statistics
context_values_5(closed_df) ==
  LET df == SelectSeq(closed_df, LAMBDA r : r.folder = FolderClosed2025)
      cl_qtd == Len(df)
      cl_nosubdate_qtd == Count(df, LAMBDA r : r.submittal_date.isNull)
      cl_nosubdate_per == percent(cl_nosubdate_qtd, cl_qtd, 100)
      cl_unnamed_branch_procs_qtd ==
        Count(df, LAMBDA r : \/ r.processor_raw.isNull
                             \/ r.processor_raw.s = <<>>
                             \/ r.processor_raw.s = <<"/", "/">>)
      cl_unnamed_branch_procs_per == percent(cl_unnamed_branch_procs_qtd, cl_qtd, 10)
  IN IF cl_nosubdate_per.err # "none" THEN RaiseVals(cl_nosubdate_per.err)
     ELSE IF cl_unnamed_branch_procs_per.err # "none"
          THEN RaiseVals(cl_unnamed_branch_procs_per.err)
     ELSE OkVals([ cl_qtd |-> cl_qtd,
                   cl_branch_procs_qtd |->
                     Cardinality({ df[i].branch_processor : i \in 1..Len(df) }),
                   cl_nosubdate_qtd |-> cl_nosubdate_qtd,
                   cl_nosubdate_per |-> Num(cl_nosubdate_per.n),
                   cl_avg_sub_days |-> avg_sub_days(df),
                   cl_unnamed_branch_procs_qtd |-> cl_unnamed_branch_procs_qtd,
                   cl_unnamed_branch_procs_per |-> Num(cl_unnamed_branch_procs_per.n) ])

\* a date field of a raw record that is not "//", "" or None
HasDate(v) == ~v.isNull /\ v.s # <<>> /\ v.s # <<"/", "/">>

\* report_3/context.py get_template_context, the statistics: idxmin and
\* idxmax of the rows with a positive close rate; over no row they raise
\* ValueError, and when every rate is None the comparison raises TypeError
context_values_3(merged_df, closed_loans) ==
  LET closed_loans_f == SelectSeq(closed_loans, LAMBDA l : l.folder = FolderClosed2025)
      positive == { i \in 1..Len(merged_df) :
                      ~merged_df[i].closeRate.isNull /\ merged_df[i].closeRate.n > 0 }
      rate == [i \in 1..Len(merged_df) |-> merged_df[i].closeRate.n]
      min_idx == Min({ i \in positive : \A j \in positive : rate[i] <= rate[j] })
      max_idx == Min({ i \in positive : \A j \in positive : rate[i] >= rate[j] })
  IN IF merged_df # <<>> /\ \A i \in 1..Len(merged_df) : merged_df[i].closeRate.isNull
     THEN RaiseVals("TypeError")
     ELSE IF positive = {} THEN RaiseVals("ValueError")
     ELSE OkVals([ cl_qtd |-> Len(closed_loans_f),
                   cl_cleared_qtd |-> Count(closed_loans_f, LAMBDA l : HasDate(l.ctc)),
                   cl_cred_pulls_qtd |->
                     SumOver(1..Len(merged_df), [i \in 1..Len(merged_df) |-> merged_df[i].pulls]),
                   cl_pulltoc_name_min |-> merged_df[min_idx].officer,
                   cl_pulltoc_ratio_min |-> Num(rate[min_idx]),
                   cl_pulltoc_name_max |-> merged_df[max_idx].officer,
                   cl_pulltoc_ratio_max |-> Num(rate[max_idx]),
                   cl_sent_branch_qtd |-> Count(closed_loans_f, LAMBDA l : HasDate(l.sent)) ])

\* a float of the per-branch table: a number (in hundredths), inf or NaN
Float(n) == [kind |-> "num", n |-> n]
FloatInf == [kind |-> "inf", n |-> 0]
FloatNaN == [kind |-> "nan", n |-> 0]

\* Series division followed by .round(2): x / 0 is inf, 0 / 0 is NaN
series_div(closed, pulls) ==
  IF pulls = 0 THEN (IF closed = 0 THEN FloatNaN ELSE FloatInf)
  ELSE Float(RoundHalfEven(closed * 100, pulls))

\* report_3/tables.py generate_closed_pulls_by_branch_table: the rows of
\* the table (groupby drops the officers without ORGID)
closed_pulls_by_branch(df) ==
  LET withBranch == { i \in 1..Len(df) : ~df[i].orgid.isNull }
      branches == { df[i].orgid.s : i \in withBranch }
      closedOf == [i \in 1..Len(df) |-> df[i].closed]
      pullsOf == [i \in 1..Len(df) |-> df[i].pulls]
      Closed(b) == SumOver({ i \in withBranch : df[i].orgid.s = b }, closedOf)
      Pulls(b) == SumOver({ i \in withBranch : df[i].orgid.s = b }, pullsOf)
  IN { [ orgid |-> b, closed |-> Closed(b), pulls |-> Pulls(b),
         lpp |-> series_div(Closed(b), Pulls(b)) ] : b \in branches }

\* report_1_2 preprocess_json (the fields 411, 2626 and 14 are copied as they
\* are): an empty snapshot has no column "2" (KeyError); an amount float()
\* rejects aborts the call (ValueError)
preprocess_json(lns) ==
  LET rowOf(l) ==
        [ folder |-> l.folder,
          loan_amount |-> loan_amount_of(l.amount).v,
          product_type |-> l.f1401,
          loan_officer |-> l.f317,
          status |-> status_of(l.folder),
          product_category |-> map_product_type_12(l.f1401),
          branch |-> l.orgid ]
  IN IF lns = <<>> THEN RaiseRows("KeyError")
     ELSE IF \E i \in 1..Len(lns) : loan_amount_of(lns[i].amount).err # "none"
          THEN RaiseRows("ValueError")
     ELSE OkRows([i \in 1..Len(lns) |-> rowOf(lns[i])])

(***************************************************************************)
(* Preprocessing, context statistics and the per-branch table over one     *)
(* snapshot.                                                               *)
(***************************************************************************)
MaxCtxCredit == 1

\* rows of the credit sheet
CtxLedgerPool ==
  { [name |-> Text(NameJoDoLower), pulls |-> <<Num(3), NullNum>>],
    [name |-> Text(NameAl), pulls |-> <<Num(0), NullNum>>],
    [name |-> Text(NameJoADo), pulls |-> <<Num(1), Num(2)>>] }

ContextInit ==
  /\ creditRows \in SeqsUpTo(CtxLedgerPool, MaxCtxCredit)
  /\ loans \in SeqsUpTo(LoanPool, MaxLoans)
  /\ merged = UnsetRows
  /\ CtxIdle
  /\ IdleExcept({"rec", "ctx"})

\* report_1_2 run(): preprocess_json(loan_json_path)
PreprocessJson ==
  /\ loan_df = UnsetRows
  /\ loan_df' = preprocess_json(loans)
  /\ UNCHANGED <<closed_df4, closed_df5, context3, context4, context5, branch_table>>
  /\ UnchangedExcept({"ctx"})

\* report_3: the per-branch table and the statistics follow Preprocess3
BranchTable3 ==
  /\ merged.err = "none"
  /\ branch_table = UnsetRows
  /\ branch_table' = OkRows(closed_pulls_by_branch(merged.rows))
  /\ UNCHANGED <<loan_df, closed_df4, closed_df5, context3, context4, context5>>
  /\ UnchangedExcept({"ctx"})

Context3 ==
  /\ merged.err = "none"
  /\ branch_table # UnsetRows
  /\ context3 = UnsetVals
  /\ context3' = context_values_3(merged.rows, loans)
  /\ UNCHANGED <<loan_df, closed_df4, closed_df5, context4, context5, branch_table>>
  /\ UnchangedExcept({"ctx"})

\* report_4 run(): preprocess, then get_template_context
Preprocess4 ==
  /\ closed_df4 = UnsetRows
  /\ closed_df4' = preprocess_4(loans)
  /\ UNCHANGED <<loan_df, closed_df5, context3, context4, context5, branch_table>>
  /\ UnchangedExcept({"ctx"})

Context4 ==
  /\ closed_df4.err = "none"
  /\ context4 = UnsetVals
  /\ context4' = context_values_4(closed_df4.rows)
  /\ UNCHANGED <<loan_df, closed_df4, closed_df5, context3, context5, branch_table>>
  /\ UnchangedExcept({"ctx"})

\* report_5 run(): preprocess, then get_template_context
Preprocess5 ==
  /\ closed_df5 = UnsetRows
  /\ closed_df5' = preprocess_5(loans)
  /\ UNCHANGED <<loan_df, closed_df4, context3, context4, context5, branch_table>>
  /\ UnchangedExcept({"ctx"})

Context5 ==
  /\ closed_df5.err = "none"
  /\ context5 = UnsetVals
  /\ context5' = context_values_5(closed_df5.rows)
  /\ UNCHANGED <<loan_df, closed_df4, closed_df5, context3, context4, branch_table>>
  /\ UnchangedExcept({"ctx"})

ContextNext ==
  \/ PreprocessJson
  \/ Preprocess3
  \/ BranchTable3
  \/ Context3
  \/ Preprocess4
  \/ Context4
  \/ Preprocess5
  \/ Context5

SpecContext == ContextInit /\ [][ContextNext]_vars

\* ---- the claims' view of the populations ----
NoClosed2025(rows) == \A i \in 1..Len(rows) : rows[i].folder # FolderClosed2025

\* the amount text keeps a non-numeric remainder once "$" and "," are gone
BadAmount(l) ==
  /\ ~l.amount.isNull
  /\ ParseFloat(RemoveChars(l.amount.s, {"$", ","})).err # "none"

\* C6: no aggregate divides by a zero-sized population: with no loan in
\* folder 'Closed 2025' the context builders of reports 3, 4 and 5 return
\* the undefined marker for the missing-submittal percentage, the unnamed
\* underwriter / branch processor percentage and the min / max close rate,
\* and a branch whose summed Credit Pulls is 0 gets the undefined marker as
\* its Loans per Pull; nothing raises and nothing is inf.
C6_UndefinedMarkerNotRaise ==
  /\ (context4 # UnsetVals /\ NoClosed2025(closed_df4.rows)) =>
        /\ context4.err = "none"
        /\ context4.vals.cl_nosubdate_per.isNull
        /\ context4.vals.cl_unnamed_underw_per.isNull
  /\ (context5 # UnsetVals /\ NoClosed2025(closed_df5.rows)) =>
        /\ context5.err = "none"
        /\ context5.vals.cl_nosubdate_per.isNull
        /\ context5.vals.cl_unnamed_branch_procs_per.isNull
  /\ (context3 # UnsetVals /\ NoClosed2025(loans)) =>
        /\ context3.err = "none"
        /\ context3.vals.cl_pulltoc_ratio_min.isNull
        /\ context3.vals.cl_pulltoc_ratio_max.isNull
  /\ branch_table # UnsetRows =>
        \A r \in branch_table.rows : r.pulls = 0 => r.lpp = FloatNaN

\* C10: an amount (field 2) with a non-numeric remainder after stripping
\* "$" and "," is an error of that row only: preprocessing of reports 1/2
\* and of report 3 still returns, the row is kept with no amount (so it is
\* counted but adds nothing to a sum), and the other rows keep their amount.
C10_AmountErrorRowLocal ==
  /\ (loan_df # UnsetRows /\ \E i \in 1..Len(loans) : BadAmount(loans[i])) =>
        /\ loan_df.err = "none"
        /\ Len(loan_df.rows) = Len(loans)
        /\ \A i \in 1..Len(loans) :
             IF BadAmount(loans[i]) THEN loan_df.rows[i].loan_amount.isNull
             ELSE loan_df.rows[i].loan_amount = loan_amount_of(loans[i].amount).v
  /\ (merged # UnsetRows /\ \E i \in 1..Len(loans) : BadAmount(loans[i])) =>
        merged.err # "ValueError"

(***************************************************************************)
(* The images directory (cfg.path.images, one directory for every          *)
(* variant), the charts each variant writes there, and add_images_context. *)
(***************************************************************************)
MaxCharts == 2
MaxFiles == 2

\* the order in which main() runs the variants
Variants == <<"report_1", "report_2", "report_3", "report_4", "report_5">>
VariantSet == Range(Variants)

\* cfg.report.status_label of the two status reports
status_label(report_prefix) == IF report_prefix = "report_1" THEN "Active" ELSE "Closed"

\* file stems of the charts gen_images_report saves, in call order (the
\* per-channel charts of reports 1 and 2 are named after field 2626)
Charts(report_prefix) ==
  CASE report_prefix = "report_1" ->
         <<"volume_by_state_active", "pareto_loan_officer_active",
           "projected_closings_active", "volume_by_branch_active">>
    [] report_prefix = "report_2" ->
         <<"volume_by_state_closed", "pareto_loan_officer_closed",
           "volume_by_branch_closed">>
    [] report_prefix = "report_3" ->
         <<"report_3_loan_officer_by_efficiency", "report_3_closed_pulls_top30",
           "report_3_closed_pulls_by_branch">>
    [] report_prefix = "report_4" ->
         <<"report_4_closed_loan_volume", "report_4_product_type_distribution",
           "report_4_avg_days_to_close", "report_4_loans_missing_submittal",
           "report_4_product_type_summary_table">>
    [] report_prefix = "report_5" ->
         <<"report_5_closed_loan_volume", "report_5_product_type_distribution",
           "report_5_avg_days_to_close", "report_5_loans_missing_submittal",
           "report_5_product_type_summary_table">>

\* the files gen_images_report leaves in the directory
gen_images_report(report_prefix) ==
  { Charts(report_prefix)[i] :
      i \in 1..Min({MaxCharts, Len(Charts(report_prefix))}) }

\* context_img = f"{path.stem}_img"
Img(stem) == <<stem, "_img">>

\* Inches(cfg.layout.metrics.full), Inches(cfg.layout.metrics.half) and
\* Inches of the custom width configured for one identifier
Width(kind, key) == [kind |-> kind, key |-> key]
WidthFull == Width("full", <<>>)
WidthHalf == Width("half", <<>>)
WidthCustom(context_img) == Width("custom", context_img)
\* the local name width before its first assignment
WidthUnbound == Width("unbound", <<>>)

\* what add_images_context returns (the image entries of the context) or raises
OkImgs(imgs) == [err |-> "none", imgs |-> imgs]
RaiseImgs(e) == [err |-> e, imgs |-> {}]

\* every order in which glob("*.png") may yield the files
RECURSIVE Perms(_)
Perms(S) ==
  IF S = {} THEN { <<>> }
  ELSE UNION { { <<x>> \o p : p \in Perms(S \ {x}) } : x \in S }

\* the loop of report_1_2 and report_3: full, half, else the custom table
RECURSIVE images_loop_else(_, _, _, _)
images_loop_else(order, rules, custom, imgs) ==
  IF order = <<>> THEN OkImgs(imgs)
  ELSE LET path == Head(order)
           context_img == Img(path)
       IN IF context_img \in rules.full_width_imgs
          THEN images_loop_else(Tail(order), rules, custom,
                                imgs \cup {[img |-> context_img, width |-> WidthFull]})
          ELSE IF context_img \in rules.half_width_imgs
          THEN images_loop_else(Tail(order), rules, custom,
                                imgs \cup {[img |-> context_img, width |-> WidthHalf]})
          ELSE IF context_img \in custom
          THEN images_loop_else(Tail(order), rules, custom,
                                imgs \cup {[img |-> context_img,
                                            width |-> WidthCustom(context_img)]})
          ELSE RaiseImgs("KeyError")

\* the loop of report_4 and report_5: full, half, custom list, and no else:
\* width keeps the value of the previous iteration, or is unbound
RECURSIVE images_loop_no_else(_, _, _, _, _)
images_loop_no_else(order, rules, custom, imgs, width) ==
  IF order = <<>> THEN OkImgs(imgs)
  ELSE LET path == Head(order)
           context_img == Img(path)
           assigned ==
             IF context_img \in rules.full_width_imgs
             THEN [err |-> "none", width |-> WidthFull]
             ELSE IF context_img \in rules.half_width_imgs
             THEN [err |-> "none", width |-> WidthHalf]
             ELSE IF context_img \in rules.custom_width_imgs
             THEN (IF context_img \in custom
                   THEN [err |-> "none", width |-> WidthCustom(context_img)]
                   ELSE [err |-> "AttributeError", width |-> width])
             ELSE IF width = WidthUnbound
             THEN [err |-> "UnboundLocalError", width |-> width]
             ELSE [err |-> "none", width |-> width]
       IN IF assigned.err # "none" THEN RaiseImgs(assigned.err)
          ELSE images_loop_no_else(Tail(order), rules, custom,
                 imgs \cup {[img |-> context_img, width |-> assigned.width]},
                 assigned.width)

add_images_context_12(order, report_prefix, lay) ==
  images_loop_else(order, lay.images[report_prefix], lay.custom, {})

add_images_context_3(order, report_prefix, lay) ==
  images_loop_else(order, lay.images[report_prefix], lay.custom, {})

add_images_context_4(order, report_prefix, lay) ==
  images_loop_no_else(order, lay.images[report_prefix], lay.custom, {}, WidthUnbound)

add_images_context_5(order, report_prefix, lay) ==
  images_loop_no_else(order, lay.images[report_prefix], lay.custom, {}, WidthUnbound)

\* the add_images_context that a variant's get_template_context calls
add_images_context(order, report_prefix, lay) ==
  CASE report_prefix \in {"report_1", "report_2"} ->
         add_images_context_12(order, report_prefix, lay)
    [] report_prefix = "report_3" -> add_images_context_3(order, report_prefix, lay)
    [] report_prefix = "report_4" -> add_images_context_4(order, report_prefix, lay)
    [] report_prefix = "report_5" -> add_images_context_5(order, report_prefix, lay)

\* ---- inputs: the layout configuration (config/*.yaml) ----
\* the first chart of a variant is full width, the second has a custom
\* width, the others are half width
RulesOf(report_prefix, customIdx) ==
  LET c == Charts(report_prefix) IN
  [ full_width_imgs |-> { Img(c[1]) },
    half_width_imgs |-> { Img(c[i]) : i \in 3..Len(c) },
    custom_width_imgs |-> { Img(c[i]) : i \in customIdx } ]

LayoutComplete ==
  [ images |-> [v \in VariantSet |-> RulesOf(v, {2})],
    custom |-> { Img(Charts(v)[2]) : v \in VariantSet } ]

\* the second chart of every variant has no rule at all
LayoutMissingRule ==
  [ images |-> [v \in VariantSet |-> RulesOf(v, {})],
    custom |-> {} ]

\* the second chart is listed as custom width but no width is configured
LayoutNoMetric ==
  [ images |-> [v \in VariantSet |-> RulesOf(v, {2})],
    custom |-> {} ]

LayoutPool == { LayoutComplete, LayoutMissingRule, LayoutNoMetric }

\* files the directory may hold: any chart of any variant, or a stray PNG
StemPool == UNION { Range(Charts(v)) : v \in VariantSet } \cup { "logo" }

RECURSIVE SubsetsUpTo(_, _)
SubsetsUpTo(S, n) ==
  IF n = 0 THEN { {} }
  ELSE LET P == SubsetsUpTo(S, n - 1) IN P \cup { T \cup {x} : T \in P, x \in S }

(***************************************************************************)
(* add_images_context of each variant over a directory listing.            *)
(***************************************************************************)
ImagesInit ==
  /\ imagesDir \in SubsetsUpTo(StemPool, MaxFiles)
  /\ layout \in LayoutPool
  /\ imgContext = NoImgContext
  /\ IdleExcept({"img"})

ImgContextOf(report_prefix, r) ==
  [report_prefix |-> report_prefix, err |-> r.err, imgs |-> r.imgs]

AddImagesContext12 ==
  /\ imgContext = NoImgContext
  /\ \E report_prefix \in {"report_1", "report_2"}, order \in Perms(imagesDir) :
       imgContext' = ImgContextOf(report_prefix,
                                  add_images_context_12(order, report_prefix, layout))
  /\ UNCHANGED <<imagesDir, layout>>
  /\ UnchangedExcept({"img"})

AddImagesContext3 ==
  /\ imgContext = NoImgContext
  /\ \E order \in Perms(imagesDir) :
       imgContext' = ImgContextOf("report_3",
                                  add_images_context_3(order, "report_3", layout))
  /\ UNCHANGED <<imagesDir, layout>>
  /\ UnchangedExcept({"img"})

AddImagesContext4 ==
  /\ imgContext = NoImgContext
  /\ \E order \in Perms(imagesDir) :
       imgContext' = ImgContextOf("report_4",
                                  add_images_context_4(order, "report_4", layout))
  /\ UNCHANGED <<imagesDir, layout>>
  /\ UnchangedExcept({"img"})

AddImagesContext5 ==
  /\ imgContext = NoImgContext
  /\ \E order \in Perms(imagesDir) :
       imgContext' = ImgContextOf("report_5",
                                  add_images_context_5(order, "report_5", layout))
  /\ UNCHANGED <<imagesDir, layout>>
  /\ UnchangedExcept({"img"})

ImagesNext ==
  \/ AddImagesContext12
  \/ AddImagesContext3
  \/ AddImagesContext4
  \/ AddImagesContext5

SpecImages == ImagesInit /\ [][ImagesNext]_vars

\* the files of the directory whose identifier is in none of the rules the
\* variant consults: its full-width list, its half-width list, and as
\* custom-width rule its custom_width_imgs list (reports 4 and 5) or the
\* table of custom widths (reports 1, 2 and 3)
Unruled(report_prefix) ==
  LET rules == layout.images[report_prefix]
      customRule == IF report_prefix \in {"report_4", "report_5"}
                    THEN rules.custom_width_imgs
                    ELSE layout.custom
  IN { path \in imagesDir :
         Img(path) \notin rules.full_width_imgs \cup rules.half_width_imgs
                            \cup customRule }

\* C9: when the directory holds an image whose identifier '<stem>_img' is
\* in none of the variant's full-width, half-width or custom-width rules,
\* add_images_context fails, and no such image is in the context with a
\* width.
C9_UnknownImageFails ==
  (imgContext # NoImgContext /\ Unruled(imgContext.report_prefix) # {}) =>
     /\ imgContext.err # "none"
     /\ \A c \in imgContext.imgs :
          c.img \notin { Img(path) : path \in Unruled(imgContext.report_prefix) }

(***************************************************************************)
(* run() of each variant: preprocess, gen_images_report, gen_docx_report   *)
(* (template, get_template_context, render, save), remove_images.          *)
(***************************************************************************)
MaxBatchLoans == 1

BatchLoanPool == { LoanJoDo, LoanActive, LoanBadAmount }

\* what run() did: the exception that left it ("none": the document was
\* saved) and the images directory it leaves behind
RunResult(err, dir) == [err |-> err, imagesDir |-> dir]

\* remove_images: unlink every file of the directory
remove_images(dir) == {}

\* report_1_2/generator.py run, given what preprocess_json and
\* add_images_context (over the directory after gen_images_report) give
run_report_1_2(report_prefix, loan_df_, context, tmpl, dir) ==
  LET dir1 == dir \cup gen_images_report(report_prefix)
  IN IF loan_df_.err # "none" THEN RunResult(loan_df_.err, dir)
     ELSE IF report_prefix \notin tmpl THEN RunResult("PackageNotFoundError", dir1)
     ELSE IF context.err # "none" THEN RunResult(context.err, dir1)
     ELSE RunResult("none", remove_images(dir1))

\* report_3/generator.py run: preprocess returns one table of eight columns,
\* and "merged_df, closed_loans = preprocess(...)" unpacks it into two names
run_report_3(report_prefix, merged_df, tmpl, dir) ==
  IF merged_df.err # "none" THEN RunResult(merged_df.err, dir)
  ELSE RunResult("ValueError", dir)

\* report_4/generator.py and report_5/generator.py run, given what
\* preprocess, the statistics and add_images_context give
run_report_4(report_prefix, closed_df, values, context, tmpl, dir) ==
  LET dir1 == dir \cup gen_images_report(report_prefix)
  IN IF closed_df.err # "none" THEN RunResult(closed_df.err, dir)
     ELSE IF report_prefix \notin tmpl THEN RunResult("PackageNotFoundError", dir1)
     ELSE IF values.err # "none" THEN RunResult(values.err, dir1)
     ELSE IF context.err # "none" THEN RunResult(context.err, dir1)
     ELSE RunResult("none", remove_images(dir1))

run_report_5(report_prefix, closed_df, values, context, tmpl, dir) ==
  LET dir1 == dir \cup gen_images_report(report_prefix)
  IN IF closed_df.err # "none" THEN RunResult(closed_df.err, dir)
     ELSE IF report_prefix \notin tmpl THEN RunResult("PackageNotFoundError", dir1)
     ELSE IF values.err # "none" THEN RunResult(values.err, dir1)
     ELSE IF context.err # "none" THEN RunResult(context.err, dir1)
     ELSE RunResult("none", remove_images(dir1))

(***************************************************************************)
(* main() with all_reports: the five runs in order, nothing caught.        *)
(***************************************************************************)
BatchInit ==
  /\ batchPc = 1
  /\ batchErr = "none"
  /\ attempted = {}
  /\ produced = {}
  /\ templates \in { VariantSet \ M : M \in SubsetsUpTo(VariantSet, 1) }
  /\ creditFile \in BOOLEAN
  /\ creditRows \in (IF creditFile THEN SeqsUpTo(CtxLedgerPool, MaxCtxCredit) ELSE { <<>> })
  /\ loans \in SeqsUpTo(BatchLoanPool, MaxBatchLoans)
  /\ merged = UnsetRows
  /\ imagesDir = {}
  /\ layout \in LayoutPool
  /\ imgContext = NoImgContext
  /\ IdleExcept({"rec", "img", "batch"})

\* the statement of main() that called run() has returned or raised
AfterRun(report_prefix, r) ==
  /\ attempted' = attempted \cup {report_prefix}
  /\ imagesDir' = r.imagesDir
  /\ IF r.err = "none"
     THEN /\ produced' = produced \cup {report_prefix}
          /\ batchPc' = batchPc + 1
          /\ batchErr' = "none"
     ELSE /\ produced' = produced
          /\ batchPc' = batchPc
          /\ batchErr' = r.err
  /\ UNCHANGED <<templates, creditFile, layout, imgContext, recVars>>
  /\ UnchangedExcept({"rec", "img", "batch"})

RunReport12 ==
  /\ batchErr = "none"
  /\ batchPc \in {1, 2}
  /\ \E report_prefix \in {Variants[batchPc]}, loan_df_ \in {preprocess_json(loans)} :
     \E order \in Perms(imagesDir \cup gen_images_report(report_prefix)) :
     \E context \in {add_images_context_12(order, report_prefix, layout)} :
     \E r \in {run_report_1_2(report_prefix, loan_df_, context, templates, imagesDir)} :
       AfterRun(report_prefix, r)

RunReport3 ==
  /\ batchErr = "none"
  /\ batchPc = 3
  /\ creditFile
  /\ \E merged_df \in {preprocess(creditRows, loans)} :
     \E r \in {run_report_3("report_3", merged_df, templates, imagesDir)} :
       AfterRun("report_3", r)

\* if check_credit_data_file(credit_data_path): otherwise report 3 is skipped
SkipReport3 ==
  /\ batchErr = "none"
  /\ batchPc = 3
  /\ ~creditFile
  /\ batchPc' = 4
  /\ UNCHANGED <<batchErr, attempted, produced, templates, creditFile, imgVars, recVars>>
  /\ UnchangedExcept({"rec", "img", "batch"})

RunReport4 ==
  /\ batchErr = "none"
  /\ batchPc = 4
  /\ \E closed_df \in {preprocess_4(loans)} :
     \E values \in {context_values_4(closed_df.rows)} :
     \E order \in Perms(imagesDir \cup gen_images_report("report_4")) :
     \E context \in {add_images_context_4(order, "report_4", layout)} :
     \E r \in {run_report_4("report_4", closed_df, values, context, templates, imagesDir)} :
       AfterRun("report_4", r)

RunReport5 ==
  /\ batchErr = "none"
  /\ batchPc = 5
  /\ \E closed_df \in {preprocess_5(loans)} :
     \E values \in {context_values_5(closed_df.rows)} :
     \E order \in Perms(imagesDir \cup gen_images_report("report_5")) :
     \E context \in {add_images_context_5(order, "report_5", layout)} :
     \E r \in {run_report_5("report_5", closed_df, values, context, templates, imagesDir)} :
       AfterRun("report_5", r)

BatchNext ==
  \/ RunReport12
  \/ RunReport3
  \/ SkipReport3
  \/ RunReport4
  \/ RunReport5

SpecBatch == BatchInit /\ [][BatchNext]_vars

\* main() has returned, or an exception has left it
BatchAtRest == batchPc = 6 \/ batchErr # "none"

\* C7: when all reports are run, a failing variant does not stop the batch:
\* once main() is over, every variant of the order 1, 2, 3, 4, 5 has been
\* attempted (report 3 only when the credit file is there).
C7_EveryVariantAttempted ==
  BatchAtRest =>
    \A i \in 1..5 :
      \/ Variants[i] \in attempted
      \/ (Variants[i] = "report_3" /\ ~creditFile)

(***************************************************************************)
(* Two runs side by side (report 4 and report 5), each taking the calls of *)
(* its run() one at a time, on the one images directory get_report_paths   *)
(* hands to every variant.                                                 *)
(***************************************************************************)
Workers == { "report_4", "report_5" }

preprocess_of(w, lns) ==
  IF w = "report_4" THEN preprocess_4(lns) ELSE preprocess_5(lns)

context_values_of(w, closed_df) ==
  IF w = "report_4" THEN context_values_4(closed_df) ELSE context_values_5(closed_df)

\* gen_docx_report up to the context: the template, the statistics, then
\* add_images_context over the directory as it is listed now
get_template_context(w, values, tmpl, lay, order) ==
  IF w \notin tmpl THEN RaiseImgs("PackageNotFoundError")
  ELSE IF values.err # "none" THEN RaiseImgs(values.err)
  ELSE add_images_context(order, w, lay)

WorkerInit ==
  /\ wpc = [w \in Workers |-> "start"]
  /\ wctx = [w \in Workers |-> RaiseImgs("unset")]
  /\ wout = [w \in Workers |-> {}]
  /\ loans \in SeqsUpTo(BatchLoanPool, MaxBatchLoans)
  /\ creditRows = <<>>
  /\ merged = UnsetRows
  /\ imagesDir = {}
  /\ layout \in LayoutPool
  /\ imgContext = NoImgContext
  /\ batchPc = 6
  /\ batchErr = "none"
  /\ attempted = {}
  /\ produced = {}
  /\ templates = VariantSet
  /\ creditFile = FALSE
  /\ IdleExcept({"rec", "img", "batch", "worker"})

\* preprocess, then gen_images_report
WGenImages(w) ==
  /\ wpc[w] = "start"
  /\ \E closed_df \in {preprocess_of(w, loans)} :
       IF closed_df.err # "none"
       THEN /\ wpc' = [wpc EXCEPT ![w] = "failed"]
            /\ wctx' = [wctx EXCEPT ![w] = RaiseImgs(closed_df.err)]
            /\ UNCHANGED imagesDir
       ELSE /\ wpc' = [wpc EXCEPT ![w] = "context"]
            /\ imagesDir' = imagesDir \cup gen_images_report(w)
            /\ UNCHANGED wctx
  /\ UNCHANGED <<wout, layout, imgContext, recVars, batchVars>>
  /\ UnchangedExcept({"rec", "img", "batch", "worker"})

\* gen_docx_report on the closed_df the run holds
WBuildContext(w) ==
  /\ wpc[w] = "context"
  /\ \E closed_df \in {preprocess_of(w, loans)} :
     \E values \in {context_values_of(w, closed_df.rows)} :
     \E order \in Perms(imagesDir) :
     \E context \in {get_template_context(w, values, templates, layout, order)} :
       /\ wctx' = [wctx EXCEPT ![w] = context]
       /\ wpc' = [wpc EXCEPT ![w] = IF context.err = "none" THEN "render" ELSE "failed"]
  /\ UNCHANGED <<wout, imgVars, recVars, batchVars>>
  /\ UnchangedExcept({"rec", "img", "batch", "worker"})

\* tpl.render(context), tpl.save(output_path): each worker its own output
WRender(w) ==
  /\ wpc[w] = "render"
  /\ wout' = [wout EXCEPT ![w] = wctx[w].imgs]
  /\ wpc' = [wpc EXCEPT ![w] = "remove"]
  /\ UNCHANGED <<wctx, imgVars, recVars, batchVars>>
  /\ UnchangedExcept({"rec", "img", "batch", "worker"})

WRemoveImages(w) ==
  /\ wpc[w] = "remove"
  /\ imagesDir' = remove_images(imagesDir)
  /\ wpc' = [wpc EXCEPT ![w] = "done"]
  /\ UNCHANGED <<wctx, wout, layout, imgContext, recVars, batchVars>>
  /\ UnchangedExcept({"rec", "img", "batch", "worker"})

WorkerNext ==
  \E w \in Workers :
    \/ WGenImages(w)
    \/ WBuildContext(w)
    \/ WRender(w)
    \/ WRemoveImages(w)

SpecWorkers == WorkerInit /\ [][WorkerNext]_vars

\* what the run of w builds when it is alone on the snapshot, starting from
\* an empty images directory
SoloResults(w) ==
  UNION { IF closed_df.err # "none"
          THEN { RaiseImgs(closed_df.err) }
          ELSE UNION { { get_template_context(w, values, templates, layout, order) :
                           order \in Perms(gen_images_report(w)) } :
                       values \in {context_values_of(w, closed_df.rows)} } :
          closed_df \in {preprocess_of(w, loans)} }

\* C8: two variants generated concurrently from one snapshot to distinct
\* outputs do not disturb each other: under every interleaving of their
\* generate-images, build-context, render and remove-images steps, the
\* context a variant builds (its images, or its failure) is one the same run
\* builds alone, so it holds exactly the images the variant generated.
C8_ConcurrentRunsIsolated ==
  \A w \in Workers :
    wpc[w] \in {"render", "remove", "done", "failed"} =>
      /\ wctx[w] \in SoloResults(w)
      /\ (wctx[w].err = "none" =>
            { c.img : c \in wctx[w].imgs } = { Img(path) : path \in gen_images_report(w) })

(***************************************************************************)
(* The Flattener: report_1_2/preprocess.py preprocess_json lines 24-33 and *)
(* report_3/preprocess.py loan_df_from_records.  A record is what          *)
(* pd.read_json gives for one JSON object: its top-level keys, and the     *)
(* mapping "fields" from field codes to values.                            *)
(***************************************************************************)
MaxRecords == 2

\* the missing value pandas puts where a record has no such key
NaN == "NaN"

Record(top, fields) == [top |-> top, fields |-> fields]

RecordPool ==
  { Record([loanId |-> "L1", folder |-> "Closed 2025"], ("2" :> "$100") @@ ("317" :> "Jo Do")),
    Record([loanId |-> "L2", folder |-> "Active"], ("317" :> "al")),
    Record([loanId |-> "L3"], ("2" :> "300")),
    Record([folder |-> "Closed 2025"], ("2" :> "5")),
    Record([loanId |-> "L5", folder |-> "Closed 2025"], ("folder" :> "Archive") @@ ("2" :> "1")),
    Record([loanId |-> "L6", folder |-> "Closed 2024"], ("X99" :> "v")) }

\* for loan in df.to_dict(orient="records"): flat_record = {"loanId": ...,
\* "folder": ...}; flat_record.update(loan["fields"]); then
\* pd.DataFrame(records).  A key no record has is no column of df
\* (KeyError); a key this record lacks reads as NaN.
flatten(recs) ==
  LET topColumns == UNION { DOMAIN recs[i].top : i \in 1..Len(recs) }
      TopValue(loan, k) == IF k \in DOMAIN loan.top THEN loan.top[k] ELSE NaN
      flat_record(loan) ==
        [k \in {"loanId", "folder"} \cup DOMAIN loan.fields |->
           IF k \in DOMAIN loan.fields THEN loan.fields[k] ELSE TopValue(loan, k)]
      columns == UNION { DOMAIN flat_record(recs[i]) : i \in 1..Len(recs) }
  IN IF recs # <<>> /\ ~({"loanId", "folder"} \subseteq topColumns)
     THEN RaiseRows("KeyError")
     ELSE OkRows([i \in 1..Len(recs) |->
                    [c \in columns |->
                       IF c \in DOMAIN flat_record(recs[i])
                       THEN flat_record(recs[i])[c] ELSE NaN]])

loan_df_from_records(recs) == flatten(recs)

FlattenInit ==
  /\ records \in SeqsUpTo(RecordPool, MaxRecords)
  /\ flat12 = UnsetRows
  /\ flat3 = UnsetRows
  /\ IdleExcept({"flat"})

FlattenJson ==
  /\ flat12 = UnsetRows
  /\ flat12' = flatten(records)
  /\ UNCHANGED <<records, flat3>>
  /\ UnchangedExcept({"flat"})

LoanDfFromRecords ==
  /\ flat3 = UnsetRows
  /\ flat3' = loan_df_from_records(records)
  /\ UNCHANGED <<records, flat12>>
  /\ UnchangedExcept({"flat"})

FlattenNext == FlattenJson \/ LoanDfFromRecords

SpecFlatten == FlattenInit /\ [][FlattenNext]_vars

\* a record that has both identity keys
WellFormed(loan) == {"loanId", "folder"} \subseteq DOMAIN loan.top

\* C11: a record without loanId or folder is dropped and the others are
\* kept: flattening returns, its rows are the well-formed records in input
\* order, and no row has a missing loanId or folder.
C11_MalformedRecordDropped ==
  \A flat \in {flat12, flat3} :
    flat # UnsetRows =>
      /\ flat.err = "none"
      /\ Len(flat.rows) = Len(SelectSeq(records, WellFormed))
      /\ \A i \in 1..Len(flat.rows) :
           /\ flat.rows[i]["loanId"] = SelectSeq(records, WellFormed)[i].top["loanId"]
           /\ flat.rows[i]["loanId"] # NaN
           /\ flat.rows[i]["folder"] # NaN

\* C12: for well-formed records the Flattener gives one row per loan in
\* input order, loanId and folder are the loan's top-level values whatever
\* fields holds, and every entry of fields is a column with its value.
C12_OneRowPerLoanIdentityKept ==
  \A flat \in {flat12, flat3} :
    (flat # UnsetRows /\ \A i \in 1..Len(records) : WellFormed(records[i])) =>
      /\ flat.err = "none"
      /\ Len(flat.rows) = Len(records)
      /\ \A i \in 1..Len(records) :
           /\ flat.rows[i]["loanId"] = records[i].top["loanId"]
           /\ flat.rows[i]["folder"] = records[i].top["folder"]
           /\ \A code \in DOMAIN records[i].fields :
                flat.rows[i][code] = records[i].fields[code]

(***************************************************************************)
(* Dates of reports 4 and 5: parse_date applied to the submittal and clear *)
(* to close fields by preprocess, and the missing-submittal count of       *)
(* get_template_context, over snapshots whose date fields vary.            *)
(***************************************************************************)
DatedLoan(folder, submittal, ctc) ==
  Loan(folder, Text(NameJoDo), Text(BranchB1), Text(Amount1200),
       Text(ProductFHA), Text(NameAnn), Text(NameBo), submittal, ctc, Null)

DatedLoanPool ==
  { DatedLoan(FolderClosed2025, Text(Date0101), Text(Date0110)),
    DatedLoan(FolderClosed2025, Text(Date0110Time), Text(Date0110Time)),
    DatedLoan(FolderClosed2025, Text(DateSlashes), Text(Date0110)),
    DatedLoan(FolderClosed2025, Text(<<>>), Text(DateSlashes)),
    DatedLoan(FolderClosed2025, Null, Null),
    DatedLoan(FolderActive, Text(Date0101), Null) }

DatesInit ==
  /\ creditRows = <<>>
  /\ loans \in SeqsUpTo(DatedLoanPool, MaxLoans)
  /\ merged = UnsetRows
  /\ CtxIdle
  /\ IdleExcept({"rec", "ctx"})

DatesNext == Preprocess4 \/ Context4 \/ Preprocess5 \/ Context5

SpecDates == DatesInit /\ [][DatesNext]_vars

\* the loans preprocess keeps, in snapshot order
ClosedLoans == SelectSeq(loans, LAMBDA l : status_of(l.folder) = Text(kwClosed))

\* the text before the first blank: the date without its time component
DatePart(s) == SplitOn(s, " ", <<>>, <<>>)[1]

\* C13: parse_date takes MM/DD/YYYY optionally followed by a time
\* component, which it discards; "//", "" and null give no date and nothing
\* is raised: every kept row's submittal_date and clear_to_close is the
\* date of the field's date part.
C13_TimeComponentDiscarded ==
  \A df \in {closed_df4, closed_df5} :
    df.err = "none" =>
      \A i \in 1..Len(df.rows) :
        LET DateOf(v) == IF v.isNull THEN NullNum ELSE parse_date(Text(DatePart(v.s)))
        IN /\ df.rows[i].submittal_date = DateOf(ClosedLoans[i].submittal)
           /\ df.rows[i].clear_to_close = DateOf(ClosedLoans[i].ctc)

\* C14: cl_nosubdate_qtd of reports 4 and 5 is the number of "Closed 2025"
\* loans whose raw submittal field is null, empty or "//"; a loan carrying
\* a submittal date is not counted.
C14_MissingSubmittalCount ==
  \A context \in {context4, context5} :
    context.err = "none" =>
      context.vals.cl_nosubdate_qtd =
        Count(SelectSeq(loans, LAMBDA l : l.folder = FolderClosed2025),
              LAMBDA l : ~HasDate(l.submittal))

(***************************************************************************)
(* The Reconciler's Loan Amount, branch and merge, row by row.             *)
(***************************************************************************)
\* the amount of a loan in cents, when float() takes it
AmountOf(l) == ParseFloat(RemoveChars(Str(l.amount), {"$", ","}))
Parseable(l) == ~l.amount.isNull /\ AmountOf(l).err = "none"

\* C15: the Loan Amount of an officer identity is the sum of the amounts of
\* all closed loans of that officer with a parseable amount, with or
\* without ORGID; 0 when there is none.
C15_AmountOverAllClosedLoans ==
  merged.err = "none" =>
    \A r \in Range(merged.rows) :
      r.amount =
        SumOver({ i \in OfficerLoans :
                    IdentityOf(loans[i].f317.s) = r.name /\ Parseable(loans[i]) },
                [i \in 1..Len(loans) |-> IF Parseable(loans[i]) THEN AmountOf(loans[i]).n ELSE 0])

\* ---- the branch of an officer ----
MaxBranchLoans == 3

LoanJoBlankBranch ==
  Loan(FolderClosed2025, Text(NameJoDo), Text(<<>>), Text(Amount300),
       Text(ProductFHA), Text(NameAnn), Text(NameBo),
       Text(Date0101), Text(Date0110), Text(Date0101))

BranchLoanPool == { LoanJoDo, LoanJoADo, LoanJoBlankBranch, LoanAlNoBranch, LoanActive }

BranchInit ==
  /\ creditRows \in SeqsUpTo(CtxLedgerPool, MaxCtxCredit)
  /\ loans \in SeqsUpTo(BranchLoanPool, MaxBranchLoans)
  /\ merged = UnsetRows
  /\ IdleExcept({"rec"})

BranchNext == Preprocess3

SpecBranch == BranchInit /\ [][BranchNext]_vars

\* the closed loans of identity k that satisfy HasBranch, in snapshot order
BranchLoans(k, HasBranch(_)) ==
  SelectSeq(loans, LAMBDA l : /\ l.folder = FolderClosed2025
                              /\ Truthy(l.f317)
                              /\ IdentityOf(l.f317.s) = k
                              /\ HasBranch(l)
                              /\ Parseable(l))

\* b is the most frequent ORGID of ls and, of the equally frequent, the
\* one met first
Dominant(ls, b) ==
  LET Cnt(c) == Cardinality({ i \in 1..Len(ls) : ls[i].orgid = c })
      First(c) == Min({ i \in 1..Len(ls) : ls[i].orgid = c })
  IN /\ Cnt(b) > 0
     /\ \A i \in 1..Len(ls) :
          LET c == ls[i].orgid
          IN Cnt(b) > Cnt(c) \/ (Cnt(b) = Cnt(c) /\ First(b) <= First(c))

BranchIsDominant(HasBranch(_)) ==
  merged.err = "none" =>
    \A r \in Range(merged.rows) :
      IF BranchLoans(r.name, HasBranch) = <<>>
      THEN r.orgid = Null
      ELSE Dominant(BranchLoans(r.name, HasBranch), r.orgid)

LedgerIdentities == { IdentityOf(creditRows[i].name.s) : i \in LedgerEntries }
ClosedIdentities == { IdentityOf(loans[i].f317.s) : i \in OfficerLoans }

\* C17: every identity of the credit ledger or of the closed loans
\* ("Closed 2025", non-empty officer) has a row in the merged table; an
\* identity of the ledger only has Closed Loans 0 and an identity of the
\* closed loans only has Credit Pulls 0.
C17_OuterJoinDefaultsZero ==
  merged.err = "none" =>
    \A k \in LedgerIdentities \cup ClosedIdentities :
      \E r \in Range(merged.rows) :
        /\ r.name = k
        /\ k \notin ClosedIdentities => r.closed = 0
        /\ k \notin LedgerIdentities => r.pulls = 0

\* 'al' has pulls and no closed loan, 'jo do' a closed loan and no pulls:
\* both have a row
C17_Witness ==
  /\ merged.err = "none"
  /\ creditRows = << [name |-> Text(NameAL), pulls |-> <<Num(1), Num(2)>>] >>
  /\ loans = <<LoanJoDo>>
  /\ \E r \in Range(merged.rows) : r.name = NameAl /\ r.pulls = 3 /\ r.closed = 0
  /\ \E r \in Range(merged.rows) : r.name = NameJoDoLower /\ r.pulls = 0 /\ r.closed = 1

(***************************************************************************)
(* Top-N selections: sort_values(by=..., ascending=False).head(30) of      *)
(* report_3/tables.py and of plot_loan_officer_pareto.  sort_values runs   *)
(* with its default kind "quicksort", which is not a stable sort: rows of  *)
(* equal key come out in an order the numpy build decides, so the result   *)
(* is any descending order of the rows.  N is scaled down from 30.         *)
(***************************************************************************)
TopN == 2
MaxTableRows == 4

TableRow(officer, pulls, closed, amount) ==
  [ officer |-> officer, pulls |-> pulls, closed |-> closed,
    lpp |-> loans_per_pull(closed, pulls), amount |-> amount ]

TableRowPool ==
  { TableRow(NameAl, 2, 1, 10000),
    TableRow(NameAnn, 4, 2, 10000),
    TableRow(NameBo, 0, 2, 30000),
    TableRow(NameJoDoLower, 1, 1, 20000),
    TableRow(NameJoDo, 2, 2, 20000) }

\* the rows of S in name order, labelled 0, 1, ... like a RangeIndex
Indexed(S) ==
  LET names == SortedTexts({ r.officer : r \in S })
  IN [i \in 1..Len(names) |->
        [index |-> i - 1, row |-> CHOOSE r \in S : r.officer = names[i]]]

\* the value of a row in the column named by
column(r, by) ==
  CASE by = "Loans per Pull" -> r.row.lpp.n
    [] by = "Closed Loans" -> r.row.closed
    [] by = "loan_volume" -> r.row.loan_volume

\* df.sort_values(by=by, ascending=False), kind="quicksort": every
\* descending order of the rows
sort_values(d, by) ==
  { [i \in 1..Len(d) |-> d[p[i]]] :
      p \in { q \in Permutations(1..Len(d)) :
                \A i, j \in 1..Len(d) :
                  i < j => column(d[q[i]], by) >= column(d[q[j]], by) } }

\* .head(n)
head(d, n) == SubSeq(d, 1, IF Len(d) < n THEN Len(d) ELSE n)

\* df[df["Credit Pulls"] > 0], then by "Loans per Pull"
efficiency_rows(d) == SelectSeq(d, LAMBDA r : r.row.pulls > 0)
generate_loan_officer_by_efficiency_table(d) ==
  { head(t, TopN) : t \in sort_values(efficiency_rows(d), "Loans per Pull") }

generate_closed_pulls_table(d) ==
  { head(t, TopN) : t \in sort_values(d, "Closed Loans") }

\* df.groupby("loan_officer").agg(loan_volume=("loan_amount", "sum")): one
\* row per officer, in key order
grouped_by_officer(d) ==
  LET names == SortedTexts({ d[i].row.officer : i \in 1..Len(d) })
      idx == 1..Len(d)
  IN [g \in 1..Len(names) |->
        [ index |-> g - 1,
          row |-> [ officer |-> names[g],
                    loan_volume |->
                      SumOver({ i \in idx : d[i].row.officer = names[g] },
                              [i \in idx |-> d[i].row.amount]) ] ]]

plot_loan_officer_pareto(d) ==
  { head(t, TopN) : t \in sort_values(grouped_by_officer(d), "loan_volume") }

TopInit ==
  /\ table_df \in { Indexed(S) : S \in { T \in SUBSET TableRowPool : Cardinality(T) <= MaxTableRows } }
  /\ top30_table = UnsetRows
  /\ top30 = UnsetRows
  /\ pareto_top30 = UnsetRows
  /\ IdleExcept({"top"})

GenerateLoanOfficerByEfficiencyTable ==
  /\ top30_table = UnsetRows
  /\ \E t \in generate_loan_officer_by_efficiency_table(table_df) : top30_table' = OkRows(t)
  /\ UNCHANGED <<table_df, top30, pareto_top30>>
  /\ UnchangedExcept({"top"})

GenerateClosedPullsTable ==
  /\ top30 = UnsetRows
  /\ \E t \in generate_closed_pulls_table(table_df) : top30' = OkRows(t)
  /\ UNCHANGED <<table_df, top30_table, pareto_top30>>
  /\ UnchangedExcept({"top"})

PlotLoanOfficerPareto ==
  /\ pareto_top30 = UnsetRows
  /\ \E t \in plot_loan_officer_pareto(table_df) : pareto_top30' = OkRows(t)
  /\ UNCHANGED <<table_df, top30_table, top30>>
  /\ UnchangedExcept({"top"})

TopNext ==
  \/ GenerateLoanOfficerByEfficiencyTable
  \/ GenerateClosedPullsTable
  \/ PlotLoanOfficerPareto

SpecTop == TopInit /\ [][TopNext]_vars

\* sel holds at most N of the rows of src, no row left out has a larger
\* key than a row of sel, and rows of equal key are in, and are cut off
\* in, the order of src
StableTopN(sel, src, key(_)) ==
  LET out == { i \in 1..Len(src) : \A j \in 1..Len(sel) : sel[j].index # src[i].index }
  IN /\ Len(sel) <= TopN
     /\ \A j \in 1..Len(sel) : \E i \in 1..Len(src) : src[i] = sel[j]
     /\ \A j \in 1..Len(sel) : \A i \in out : key(sel[j]) >= key(src[i])
     /\ \A j, k \in 1..Len(sel) :
          (j < k /\ key(sel[j]) = key(sel[k])) => sel[j].index < sel[k].index
     /\ \A j \in 1..Len(sel) : \A i \in out :
          key(sel[j]) = key(src[i]) => sel[j].index < src[i].index

\* C18: each top-N selection (by Loans per Pull, by Closed Loans, by loan
\* volume) has at most N rows, none smaller than a row left out, and rows
\* of equal metric are in their original row order, also at the cut.
C18_TopNStable ==
  /\ top30_table.err = "none" =>
       StableTopN(top30_table.rows, efficiency_rows(table_df), LAMBDA r : r.row.lpp.n)
  /\ top30.err = "none" =>
       StableTopN(top30.rows, table_df, LAMBDA r : r.row.closed)
  /\ pareto_top30.err = "none" =>
       StableTopN(pareto_top30.rows, grouped_by_officer(table_df), LAMBDA r : r.row.loan_volume)

(***************************************************************************)
(* Retrieval: DataRetriever.run and retrieve_loan_field_data               *)
(* (data_retriever.py).  For every folder the loan ids are listed and one  *)
(* request per loan is sent.  A request ends with status 200 (the loan     *)
(* funded last month, or not), with another status, or with an exception   *)
(* of requests.post (connection error, timeout).                           *)
(***************************************************************************)
MaxFolderLoans == 2

folders == <<"Active Pipeline", "Closed 2025">>

\* 200 with field 1997 in last month, 200 with field 1997 outside last
\* month, a status other than 200, an exception raised by requests.post
Outcomes == {"200", "200 not funded", "500", "RequestError"}

RetPc(state, folder, loan) == [state |-> state, folder |-> folder, loan |-> loan]

RetrieveInit ==
  /\ responses \in [1..Len(folders) -> SeqsUpTo(Outcomes, MaxFolderLoans)]
  /\ ret_pc = RetPc("listing", 1, 0)
  /\ requested = <<>>
  /\ failed_log = <<>>
  /\ loan_field_data = <<>>
  /\ output_file = [written |-> FALSE, data |-> <<>>]
  /\ IdleExcept({"ret"})

\* for folder in folders: loan_ids = self.get_loan_ids_by_folder(folder)
GetLoanIdsByFolder ==
  /\ ret_pc.state = "listing"
  /\ ret_pc' = IF responses[ret_pc.folder] = <<>>
               THEN (IF ret_pc.folder < Len(folders)
                     THEN RetPc("listing", ret_pc.folder + 1, 0)
                     ELSE RetPc("saving", ret_pc.folder, 0))
               ELSE RetPc("fetching", ret_pc.folder, 1)
  /\ UNCHANGED <<responses, requested, failed_log, loan_field_data, output_file>>
  /\ UnchangedExcept({"ret"})

\* one pass of the inner loop: the request for one loan and what follows
\* from its outcome; an exception leaves retrieve_loan_field_data and is
\* caught by run()
FetchLoanFields ==
  /\ ret_pc.state = "fetching"
  /\ LET f == ret_pc.folder
         j == ret_pc.loan
         loan_id == <<f, j>>
         outcome == responses[f][j]
         after == IF j < Len(responses[f]) THEN RetPc("fetching", f, j + 1)
                  ELSE IF f < Len(folders) THEN RetPc("listing", f + 1, 0)
                  ELSE RetPc("saving", f, 0)
     IN /\ requested' = Append(requested, loan_id)
        /\ IF outcome = "RequestError"
           THEN /\ ret_pc' = RetPc("failed", f, j)
                /\ UNCHANGED <<failed_log, loan_field_data>>
           ELSE /\ ret_pc' = after
                /\ IF outcome = "500"
                   THEN /\ failed_log' = Append(failed_log, loan_id)
                        /\ UNCHANGED loan_field_data
                   ELSE /\ UNCHANGED failed_log
                        /\ IF folders[f] = "Closed 2025" /\ outcome = "200 not funded"
                           THEN UNCHANGED loan_field_data
                           ELSE loan_field_data' = Append(loan_field_data, loan_id)
  /\ UNCHANGED <<responses, output_file>>
  /\ UnchangedExcept({"ret"})

\* json.dump(loan_field_data, f) after the loops
SaveOutputFile ==
  /\ ret_pc.state = "saving"
  /\ output_file' = [written |-> TRUE, data |-> loan_field_data]
  /\ ret_pc' = RetPc("saved", ret_pc.folder, 0)
  /\ UNCHANGED <<responses, requested, failed_log, loan_field_data>>
  /\ UnchangedExcept({"ret"})

RetrieveNext == GetLoanIdsByFolder \/ FetchLoanFields \/ SaveOutputFile

SpecRetrieve == RetrieveInit /\ [][RetrieveNext]_vars

\* every loan of every folder, in retrieval order
AllLoanIds ==
  LET Of(f) == [j \in 1..Len(responses[f]) |-> <<f, j>>]
  IN Of(1) \o Of(2)

Failed(loan_id) == responses[loan_id[1]][loan_id[2]] \in {"500", "RequestError"}

Collected(loan_id) ==
  /\ ~Failed(loan_id)
  /\ ~(folders[loan_id[1]] = "Closed 2025"
         /\ responses[loan_id[1]][loan_id[2]] = "200 not funded")

\* C19: when run() has ended, every loan of every folder was requested
\* exactly once (a failed loan is not retried and does not stop the
\* others), every failed loan was logged, and the records collected were
\* written to the output file.
C19_FailedLoanSkipped ==
  ret_pc.state \in {"saved", "failed"} =>
    /\ requested = AllLoanIds
    /\ failed_log = SelectSeq(AllLoanIds, Failed)
    /\ loan_field_data = SelectSeq(AllLoanIds, Collected)
    /\ output_file = [written |-> TRUE, data |-> loan_field_data]

(***************************************************************************)
(* Re-running a variant of report_1_2 (generator.py run) after an earlier  *)
(* run that was interrupted between gen_images_report and remove_images.   *)
(* All variants write their charts to the one directory cfg.path.images.   *)
(***************************************************************************)
\* cfg.path.output / output_file.format(report_prefix, month_label, year_label)
output_path_of(report_prefix) == <<"output", report_prefix, "month_label", "year_label">>

\* report_1_2/context.py get_template_context: the entries of the context,
\* or the exception of add_images_context
get_template_context_12(report_prefix, loan_df_, images) ==
  LET wanted == IF status_label(report_prefix) = "Active" THEN Text(kwActive)
                ELSE Text(kwClosed)
  IN IF images.err # "none" THEN [err |-> images.err, cl_qtd |-> 0, imgs |-> {}]
     ELSE [ err |-> "none",
            cl_qtd |-> Count(loan_df_, LAMBDA r : r.status = wanted),
            imgs |-> images.imgs ]

\* run(): what it raised, the path it saved to, the context it rendered from
RerunResult(report_prefix, loan_df_, context, r) ==
  [ report_prefix |-> report_prefix,
    err |-> r.err,
    output_path |-> IF r.err = "none" THEN output_path_of(report_prefix) ELSE <<>>,
    context |-> IF loan_df_.err # "none"
                THEN [err |-> loan_df_.err, cl_qtd |-> 0, imgs |-> {}]
                ELSE context ]

RerunInit ==
  /\ rerun_pc = "start"
  /\ rerun_result = <<>>
  /\ creditRows = <<>>
  /\ loans \in SeqsUpTo(BatchLoanPool, MaxBatchLoans)
  /\ merged = UnsetRows
  /\ imagesDir = {}
  /\ layout \in LayoutPool
  /\ imgContext = NoImgContext
  /\ IdleExcept({"rec", "img", "rerun"})

\* a run of some variant stopped after it had saved its first k charts
PartialRun ==
  /\ rerun_pc = "start"
  /\ \E v \in VariantSet :
     \E k \in 1..Cardinality(gen_images_report(v)) :
       imagesDir' = imagesDir \cup { Charts(v)[i] : i \in 1..k }
  /\ rerun_pc' = "partial"
  /\ UNCHANGED <<rerun_result, layout, imgContext, recVars>>
  /\ UnchangedExcept({"rec", "img", "rerun"})

\* run(report_prefix, ...) of report_1_2, from preprocess_json to
\* remove_images
Rerun ==
  /\ rerun_pc \in {"start", "partial"}
  /\ \E report_prefix \in {"report_1", "report_2"}, loan_df_ \in {preprocess_json(loans)} :
     \E order \in Perms(imagesDir \cup gen_images_report(report_prefix)) :
     \E images \in {add_images_context_12(order, report_prefix, layout)} :
     \E context \in {get_template_context_12(report_prefix, loan_df_.rows, images)} :
     \E r \in {run_report_1_2(report_prefix, loan_df_, images, VariantSet, imagesDir)} :
       /\ rerun_result' = RerunResult(report_prefix, loan_df_, context, r)
       /\ imagesDir' = r.imagesDir
  /\ rerun_pc' = "done"
  /\ UNCHANGED <<layout, imgContext, recVars>>
  /\ UnchangedExcept({"rec", "img", "rerun"})

RerunNext == PartialRun \/ Rerun

SpecRerun == RerunInit /\ [][RerunNext]_vars

\* one run of the variant on the same snapshot over an empty directory
CleanRun(report_prefix) ==
  LET loan_df_ == preprocess_json(loans)
      order == CHOOSE o \in Perms(gen_images_report(report_prefix)) : TRUE
      images == add_images_context_12(order, report_prefix, layout)
  IN RerunResult(report_prefix, loan_df_,
                 get_template_context_12(report_prefix, loan_df_.rows, images),
                 run_report_1_2(report_prefix, loan_df_, images, VariantSet, {}))

MaxCanonLoans == 3

AmountNegative == <<"-","5","0","0">>

LoanNegative ==
  Loan(FolderClosed2025, Text(NameAl), Text(BranchB2), Text(AmountNegative),
       Text(ProductVA), Text(NameBo), Text(NameBo),
       Text(Date0101), Text(Date0110), Text(Date0101))
LoanBlankBranch ==
  Loan(FolderClosed2025, Text(NameJoDo), Text(NameBlank), Text(Amount300),
       Text(ProductConv), Text(NameBo), Text(NameBlank),
       Text(Date0101), Text(Date0110), Text(Date0101))

CanonLoanPool == { LoanJoDo, LoanNegative, LoanBlankBranch, LoanAlNoBranch, LoanActive }

\* df.groupby(by).agg(loan_volume=("loan_amount", "sum"),
\* loan_count=("loanId", "count")): one row per key, in key order; keyOf
\* gives the key of each row of d
grouped_sum_count(d, keyOf) ==
  LET idx == 1..Len(d)
      names == SortedTexts({ keyOf[i] : i \in idx })
      amountOf == [i \in idx |-> IF d[i].loan_amount.isNull THEN 0 ELSE d[i].loan_amount.n]
  IN [g \in 1..Len(names) |->
        [ index |-> g - 1,
          row |-> [ key |-> names[g],
                    loan_volume |-> SumOver({ i \in idx : keyOf[i] = names[g] }, amountOf),
                    loan_count |-> Cardinality({ i \in idx : keyOf[i] = names[g] }) ] ]]

\* report_1_2/plots.py plot_volume_by_branch: the branch is canonicalized
\* here, on a copy, then grouped and sorted by volume
plot_volume_by_branch(d) ==
  LET branch == [i \in 1..Len(d) |-> underwriter_of(d[i].branch)]
  IN sort_values(grouped_sum_count(d, branch), "loan_volume")

\* a variant that orders the groups by their number of loans
plot_closed_loan_volume_ByCount(d) ==
  LET g == grouped_sum_count(d, [i \in 1..Len(d) |-> d[i].underwriter])
  IN { [i \in 1..Len(g) |-> g[p[i]]] :
         p \in { q \in Permutations(1..Len(g)) :
                   \A i, j \in 1..Len(g) :
                     i < j => g[q[i]].row.loan_count >= g[q[j]].row.loan_count } }

\* report_4/plots.py plot_closed_loan_volume
plot_closed_loan_volume(d) ==
  sort_values(grouped_sum_count(d, [i \in 1..Len(d) |-> d[i].underwriter]), "loan_volume")

CanonInit ==
  /\ creditRows = <<>>
  /\ loans \in SeqsUpTo(CanonLoanPool, MaxCanonLoans)
  /\ merged = UnsetRows
  /\ CtxIdle
  /\ volume_by_branch = UnsetRows
  /\ closed_loan_volume = UnsetRows
  /\ IdleExcept({"rec", "ctx", "plot"})

\* gen_images_report of report_1 / report_2: the chart over the loans of
\* the report's status
PlotVolumeByBranch ==
  /\ loan_df.err = "none"
  /\ volume_by_branch = UnsetRows
  /\ \E report_prefix \in {"report_1", "report_2"} :
     \E status_df \in { SelectSeq(loan_df.rows,
                                  LAMBDA r : ~r.status.isNull
                                             /\ r.status.s = (IF report_prefix = "report_1"
                                                              THEN kwActive ELSE kwClosed)) } :
     \E t \in plot_volume_by_branch(status_df) :
       volume_by_branch' = OkRows(t)
  /\ UNCHANGED <<closed_loan_volume, ctxVars, recVars>>
  /\ UnchangedExcept({"rec", "ctx", "plot"})

\* gen_images_report of report_4
PlotClosedLoanVolume ==
  /\ closed_df4.err = "none"
  /\ closed_loan_volume = UnsetRows
  /\ \E t \in plot_closed_loan_volume(closed_df4.rows) :
       closed_loan_volume' = OkRows(t)
  /\ UNCHANGED <<volume_by_branch, ctxVars, recVars>>
  /\ UnchangedExcept({"rec", "ctx", "plot"})

CanonNext ==
  \/ PreprocessJson
  \/ Preprocess4
  \/ Preprocess5
  \/ PlotVolumeByBranch
  \/ PlotClosedLoanVolume

SpecCanon == CanonInit /\ [][CanonNext]_vars

\* C21: after preprocessing no loan_amount is negative: an amount text
\* that parses to a negative number is a parse failure, never a stored
\* value and never part of a volume.
C21_AmountNonNegative ==
  /\ \A d \in {loan_df, closed_df4, closed_df5} :
       d.err = "none" =>
         \A i \in 1..Len(d.rows) : d.rows[i].loan_amount.isNull \/ d.rows[i].loan_amount.n >= 0
  /\ \A g \in {volume_by_branch, closed_loan_volume} :
       g.err = "none" => \A i \in 1..Len(g.rows) : g.rows[i].row.loan_volume >= 0

\* a null, empty or whitespace-only value
Blank(v) == v.isNull \/ Strip(v.s) = <<>>

\* C22: after preprocessing no row has a null, empty or whitespace-only
\* branch (reports 1/2) or branch_processor (report 5): such values have
\* become "Unassigned", and the per-branch chart puts these loans in the
\* group "Unassigned".
C22_BlankBranchUnassigned ==
  /\ loan_df.err = "none" =>
       \A i \in 1..Len(loan_df.rows) : ~Blank(loan_df.rows[i].branch)
  /\ closed_df5.err = "none" =>
       \A i \in 1..Len(closed_df5.rows) :
         /\ Strip(closed_df5.rows[i].branch_processor) # <<>>
         /\ Blank(ClosedLoans[i].processor) =>
              closed_df5.rows[i].branch_processor = TextUnassigned
  /\ volume_by_branch.err = "none" =>
       \A i \in 1..Len(volume_by_branch.rows) :
         Strip(volume_by_branch.rows[i].row.key) # <<>>

\* ---- the mean of the days from submittal to clear to close ----
\* avg is the mean, to one decimal, of the whole days between the two dates
\* over the "Closed 2025" rows of d that have both dates, and no number
\* when there is no such row
MeanOfRowsWithBothDates(avg, d) ==
  LET rows == SelectSeq(d, LAMBDA r : r.folder = FolderClosed2025)
      both == { i \in 1..Len(rows) :
                  ~rows[i].submittal_date.isNull /\ ~rows[i].clear_to_close.isNull }
      total == SumOver(both, [i \in 1..Len(rows) |->
                                rows[i].clear_to_close.n - rows[i].submittal_date.n])
      n == Cardinality(both)
  IN IF n = 0 THEN avg.isNull
     ELSE /\ ~avg.isNull
          /\ 2 * (avg.n * n - 10 * total) <= n
          /\ 2 * (10 * total - avg.n * n) <= n

\* C23: cl_avg_sub_days is the mean of (clear to close - submittal) in
\* whole days over exactly the "Closed 2025" rows with both dates; a row
\* lacking a date is left out and does not count as 0.
C23_MeanDaysOverBothDates ==
  /\ context4.err = "none" =>
       MeanOfRowsWithBothDates(context4.vals.cl_avg_sub_days, closed_df4.rows)
  /\ context5.err = "none" =>
       MeanOfRowsWithBothDates(context5.vals.cl_avg_sub_days, closed_df5.rows)

\* one loan took 9 days, the other has no submittal date: the mean is 9.0
C23_Witness ==
  /\ context4.err = "none"
  /\ Len(loans) = 2
  /\ loans[1].submittal = Text(Date0101) /\ loans[1].ctc = Text(Date0110)
  /\ loans[2].submittal = Text(DateSlashes) /\ loans[2].ctc = Text(Date0110)
  /\ loans[1].folder = FolderClosed2025 /\ loans[2].folder = FolderClosed2025
  /\ context4.vals.cl_avg_sub_days = Num(90)

\* ---- group-sum-count ----
\* C24: the grouped table has one row per group with volume = the sum of
\* loan_amount and count = the number of rows of the group, and the groups
\* are in order of non-increasing volume, whatever their counts.
C24_GroupSumCountByVolume ==
  closed_loan_volume.err = "none" =>
    LET d == closed_df4.rows
        g == closed_loan_volume.rows
        Of(k) == { i \in 1..Len(d) : d[i].underwriter = k }
        amountOf == [i \in 1..Len(d) |-> IF d[i].loan_amount.isNull THEN 0
                                         ELSE d[i].loan_amount.n]
    IN /\ \A i \in 1..Len(d) :
            Cardinality({ j \in 1..Len(g) : g[j].row.key = d[i].underwriter }) = 1
       /\ \A j \in 1..Len(g) :
            /\ Of(g[j].row.key) # {}
            /\ g[j].row.loan_volume = SumOver(Of(g[j].row.key), amountOf)
            /\ g[j].row.loan_count = Cardinality(Of(g[j].row.key))
       /\ \A j, k \in 1..Len(g) : j < k => g[j].row.loan_volume >= g[k].row.loan_volume

\* 'Ann' with one loan of 1200.00 comes before 'Bo' with two loans of
\* 601.00 together
C24_Witness ==
  /\ closed_loan_volume.err = "none"
  /\ loans = <<LoanJoDo, LoanBlankBranch, LoanBlankBranch>>
  /\ Len(closed_loan_volume.rows) = 2
  /\ closed_loan_volume.rows[1].row = [key |-> NameAnn, loan_volume |-> 120000, loan_count |-> 1]
  /\ closed_loan_volume.rows[2].row = [key |-> NameBo, loan_volume |-> 60100, loan_count |-> 2]


(***************************************************************************)
(* main(): which generators a command line invokes, and what is logged.    *)
(* main.py lines 29-85.                                                     *)
(***************************************************************************)

\* report_n as typer hands it over: None when the argument is left empty
NoReport == 0
ReportNumbers == 1..5

\* a generator either returns or raises (nothing in main() catches)
RunOutcomes == {"returned", "raised"}

Generating(n) == [msg |-> "Generating Report", n |-> n]
Generated(n) == [msg |-> "Report generated successfully", n |-> n]
GeneratingAll == [msg |-> "Generating all reports", n |-> NoReport]
GeneratedAll == [msg |-> "All reports generated successfully", n |-> NoReport]

MainInit ==
  /\ report_n \in {NoReport} \cup ReportNumbers
  /\ all_reports \in BOOLEAN
  /\ loan_file \in BOOLEAN
  /\ credit_file \in BOOLEAN
  /\ main_pc = 0
  /\ invoked = {}
  /\ main_log = <<>>
  /\ IdleExcept({"main"})

\* if check_loan_data_file(loan_data_path): fails, no report branch is taken
MainNoLoanFile ==
  /\ main_pc = 0
  /\ ~loan_file
  /\ main_pc' = 6
  /\ UNCHANGED <<report_n, all_reports, loan_file, credit_file, invoked, main_log>>
  /\ UnchangedExcept({"main"})

\* if all_reports: logging.info("Generating all reports...")
MainAllReports ==
  /\ main_pc = 0
  /\ loan_file
  /\ all_reports
  /\ main_pc' = 1
  /\ main_log' = Append(main_log, GeneratingAll)
  /\ UNCHANGED <<report_n, all_reports, loan_file, credit_file, invoked>>
  /\ UnchangedExcept({"main"})

\* one report of the all branch: log, run, and after report 5 the closing log
MainRunNext ==
  /\ main_pc \in ReportNumbers
  /\ main_pc = 3 => credit_file
  /\ invoked' = invoked \cup {main_pc}
  /\ \E outcome \in RunOutcomes :
       IF outcome = "raised"
         THEN /\ main_pc' = 7
              /\ main_log' = Append(main_log, Generating(main_pc))
         ELSE /\ main_pc' = main_pc + 1
              /\ main_log' = IF main_pc = 5
                               THEN main_log \o <<Generating(5), GeneratedAll>>
                               ELSE Append(main_log, Generating(main_pc))
  /\ UNCHANGED <<report_n, all_reports, loan_file, credit_file>>
  /\ UnchangedExcept({"main"})

\* if check_credit_data_file(credit_data_path): fails in the all branch
MainSkipReport3 ==
  /\ main_pc = 3
  /\ ~credit_file
  /\ main_pc' = 4
  /\ UNCHANGED <<report_n, all_reports, loan_file, credit_file, invoked, main_log>>
  /\ UnchangedExcept({"main"})

\* the generators the if/elif chain of the single branch calls for report_n
single_report(n, credit) ==
  IF n \in {1, 2} THEN {n}
  ELSE IF n = 3 THEN (IF credit THEN {3} ELSE {})
  ELSE IF n = 4 THEN {4}
  ELSE IF n = 5 THEN {5}
  ELSE {}

\* else: the single-report branch, whole
MainSingleReport ==
  /\ main_pc = 0
  /\ loan_file
  /\ ~all_reports
  /\ invoked' = single_report(report_n, credit_file)
  /\ \E outcome \in RunOutcomes :
       IF invoked' # {} /\ outcome = "raised"
         THEN /\ main_pc' = 7
              /\ main_log' = Append(main_log, Generating(report_n))
         ELSE /\ main_pc' = 6
              /\ main_log' = main_log \o <<Generating(report_n), Generated(report_n)>>
  /\ UNCHANGED <<report_n, all_reports, loan_file, credit_file>>
  /\ UnchangedExcept({"main"})

MainNext ==
  \/ MainNoLoanFile
  \/ MainAllReports
  \/ MainRunNext
  \/ MainSkipReport3
  \/ MainSingleReport

SpecMain == MainInit /\ [][MainNext]_vars

\* the log holds a record saying a report, or all of them, was generated
LogsGenerated ==
  \E i \in 1..Len(main_log) :
    main_log[i].msg \in {"Report generated successfully",
                         "All reports generated successfully"}

\* C25: with the report number argument left empty and the loan file there,
\* a run that gets past the reports has invoked the generators of reports 1,
\* 2, 4 and 5, and of report 3 when the credit file check passes; and no run
\* logs that a report was generated without having invoked a generator.
C25_EmptyArgumentRunsAll ==
  /\ (report_n = NoReport /\ loan_file /\ main_pc = 6)
       => /\ {1, 2, 4, 5} \subseteq invoked
          /\ credit_file => 3 \in invoked
  /\ LogsGenerated => invoked # {}


(***************************************************************************)
(* Projected closings: report_1_2/plots.py plot_projected_closings, called *)
(* by gen_images_report on the Active loans of report 1.                   *)
(***************************************************************************)
MaxProjLoans == 3
days_ahead == 30

Date1231 == <<"1","2","/","3","1","/","2","0","2","4">>
Date0601 == <<"0","6","/","0","1","/","2","0","2","5">>

ActiveLoan(amount, ctc) ==
  Loan(FolderActive, Text(NameJoDo), Text(BranchB1), amount,
       Text(ProductFHA), Text(NameAnn), Text(NameBo), Text(Date0101), ctc, Null)

\* Active loans whose Clear-to-Close field varies
ProjLoanPool ==
  { ActiveLoan(Text(Amount1200), Text(Date1231)),
    ActiveLoan(Text(Amount300), Text(Date0101)),
    ActiveLoan(Text(Amount1200), Text(Date0110)),
    ActiveLoan(Text(Amount300), Text(Date0601)),
    ActiveLoan(Text(Amount1200), Text(DateSlashes)),
    ActiveLoan(Null, Text(Date0110)),
    ActiveLoan(Text(Amount300), Null),
    LoanJoDo }

\* dates of a run
RunDates ==
  { [y |-> 2024, m |-> 12, d |-> 20],
    [y |-> 2025, m |-> 1, d |-> 5],
    [y |-> 2025, m |-> 5, d |-> 30] }

\* .dt.to_period("W").start_time: the Monday of the week (day 1 is a Monday)
week_start(o) == o - ((o - 1) % 7)

\* replace(["//", "...", ""], NA), to_datetime(format="%m/%d/%Y",
\* errors="coerce"), the rows with a date grouped by week: the sum of
\* loan_amount (NaN skipped) and the row count, by ascending week; the mean
\* of the volumes as the pair <<sum, number of weeks>>
plot_projected_closings(d) ==
  LET date == [i \in 1..Len(d) |-> parse_date(d[i].ctc)]
      filtered == { i \in 1..Len(d) : ~date[i].isNull }
      week == [i \in filtered |-> week_start(date[i].n)]
      weeks == { week[i] : i \in filtered }
      amount == [i \in 1..Len(d) |->
                   IF d[i].loan_amount.isNull THEN 0 ELSE d[i].loan_amount.n]
      rowOf(w) == [ week |-> w,
                    loan_volume |-> SumOver({ i \in filtered : week[i] = w }, amount),
                    loan_count |-> Cardinality({ i \in filtered : week[i] = w }) ]
      grouped == CHOOSE g \in [1..Cardinality(weeks) -> { rowOf(w) : w \in weeks }] :
                   \A i, j \in DOMAIN g : i < j => g[i].week < g[j].week
  IN IF weeks = {}
       THEN [err |-> "none", rows |-> <<>>, avg_volume |-> <<>>]
       ELSE [err |-> "none", rows |-> grouped,
             avg_volume |-> << SumOver(DOMAIN grouped,
                                       [i \in DOMAIN grouped |-> grouped[i].loan_volume]),
                               Len(grouped) >>]

ProjInit ==
  /\ today \in RunDates
  /\ loans \in SeqsUpTo(ProjLoanPool, MaxProjLoans)
  /\ creditRows = <<>>
  /\ merged = UnsetRows
  /\ CtxIdle
  /\ projected_closings = [err |-> "unset", rows |-> <<>>, avg_volume |-> <<>>]
  /\ IdleExcept({"rec", "ctx", "clock", "proj"})

\* run("report_1") after preprocess_json: gen_images_report with
\* status_label "Active", get_df_by_status and plot_projected_closings over
\* the flat rows (the Clear-to-Close field is copied as it is)
GenImagesProjected ==
  /\ projected_closings.err = "unset"
  /\ loan_df.err = "none"
  /\ LET df == [i \in 1..Len(loans) |->
                  [ ctc |-> loans[i].ctc,
                    status |-> loan_df.rows[i].status,
                    loan_amount |-> loan_df.rows[i].loan_amount ]]
         status_df == SelectSeq(df, LAMBDA r : r.status = Text(kwActive))
     IN projected_closings' = plot_projected_closings(status_df)
  /\ UNCHANGED <<today, recVars, ctxVars>>
  /\ UnchangedExcept({"rec", "ctx", "clock", "proj"})

ProjNext == PreprocessJson \/ GenImagesProjected

SpecProjected == ProjInit /\ [][ProjNext]_vars

\* the Active loans with a valid Clear-to-Close date within the next
\* days_ahead days of the run
InWindow ==
  LET run == Ordinal(today.y, today.m, today.d) IN
  { i \in 1..Len(loans) :
      /\ status_of(loans[i].folder) = Text(kwActive)
      /\ ~parse_date(loans[i].ctc).isNull
      /\ parse_date(loans[i].ctc).n >= run
      /\ parse_date(loans[i].ctc).n <= run + days_ahead }

\* C26: plot_projected_closings buckets by calendar week exactly the Active
\* loans with a valid Clear-to-Close date within the next days_ahead days of
\* the run: a loan with no date or with a date outside the window is in no
\* bucket, each bucket has the volume sum and row count of its week, and the
\* average is the mean of the bucket volumes.
C26_BucketsWithinWindow ==
  projected_closings.err = "none" =>
    LET g == projected_closings.rows
        weekOf(i) == week_start(parse_date(loans[i].ctc).n)
        amountOf(i) == loan_amount_of(loans[i].amount).v
        cents == [i \in 1..Len(loans) |-> IF amountOf(i).isNull THEN 0 ELSE amountOf(i).n]
    IN /\ { g[k].week : k \in DOMAIN g } = { weekOf(i) : i \in InWindow }
       /\ \A j, k \in DOMAIN g : j < k => g[j].week < g[k].week
       /\ \A k \in DOMAIN g :
            /\ g[k].loan_count = Cardinality({ i \in InWindow : weekOf(i) = g[k].week })
            /\ g[k].loan_volume = SumOver({ i \in InWindow : weekOf(i) = g[k].week }, cents)
       /\ g # <<>> =>
            projected_closings.avg_volume =
              << SumOver(DOMAIN g, [k \in DOMAIN g |-> g[k].loan_volume]), Len(g) >>


(***************************************************************************)
(* The run of report 3 over valid inputs (report_3/generator.py run).      *)
(***************************************************************************)

\* run("report_3") has been called and has ended
Report3Ran == "report_3" \in attempted /\ batchPc \in {3, 4}

\* C27: when preprocess accepts the loan and credit inputs, the run of
\* report 3 unpacks what preprocess returns and goes on through image
\* generation and context building: it does not end in an exception raised
\* before the template is opened.
C27_Report3RunProceeds ==
  (Report3Ran /\ preprocess(creditRows, loans).err = "none")
    => (batchErr = "none" \/ (batchPc = 3 /\ batchErr = "PackageNotFoundError"))


(***************************************************************************)
(* The images a context is built from (add_images_context globs the one    *)
(* directory all variants and all runs share).                             *)
(***************************************************************************)

\* the context names of the charts the run of a variant generates itself
OwnImages(report_prefix) == { Img(stem) : stem \in gen_images_report(report_prefix) }

\* C28: when the context of a variant is built, only the images that same
\* run generated are embedded in it or looked up in the layout rules: after
\* an earlier run that stopped before remove_images, the run embeds no image
\* of that earlier run, and fails on a layout lookup only where a run over an
\* empty directory fails too.
C28_OnlyOwnImagesInContext ==
  rerun_pc = "done" =>
    /\ \A e \in rerun_result.context.imgs : e.img \in OwnImages(rerun_result.report_prefix)
    /\ rerun_result.err = "KeyError" => CleanRun(rerun_result.report_prefix).err = "KeyError"


(***************************************************************************)
(* The reporting period: the labels of utils/date_utils.py                 *)
(* get_last_month_year_labels (main.py line 48) and the funding window of  *)
(* data_retriever.py get_last_month_date_range, on the day of the run.     *)
(***************************************************************************)
RunYears == {2024, 2025}

\* strftime("%B")
MonthNames ==
  <<"January", "February", "March", "April", "May", "June", "July",
    "August", "September", "October", "November", "December">>

Date(y, m, d) == [y |-> y, m |-> m, d |-> d]

\* datetime - timedelta(days=n), month by month
RECURSIVE minus_days(_, _)
minus_days(date, n) ==
  IF n < date.d THEN Date(date.y, date.m, date.d - n)
  ELSE LET py == IF date.m = 1 THEN date.y - 1 ELSE date.y
           pm == IF date.m = 1 THEN 12 ELSE date.m - 1
       IN minus_days(Date(py, pm, DaysInMonth(py, pm)), n - date.d)

\* (datetime.now() - timedelta(days=30)).strftime("%B") and "%Y"
get_last_month_year_labels(now) ==
  LET then == minus_days(now, 30)
  IN [month |-> MonthNames[then.m], year |-> then.y]

\* get_last_month_date_range() without month and year: the reference date
\* is today
get_last_month_date_range(now) ==
  LET first_day_this_month == Date(now.y, now.m, 1)
      last_day_last_month == minus_days(first_day_this_month, 1)
      first_day_last_month == Date(last_day_last_month.y, last_day_last_month.m, 1)
  IN [first |-> first_day_last_month, last |-> last_day_last_month]

LabelInit ==
  /\ today \in { Date(y, m, d) : y \in RunYears, m \in 1..12, d \in 1..31 }
  /\ today.d <= DaysInMonth(today.y, today.m)
  /\ labels = <<>>
  /\ date_range = <<>>
  /\ IdleExcept({"clock", "label"})

\* main(): month_label, year_label = get_last_month_year_labels()
GetLastMonthYearLabels ==
  /\ labels = <<>>
  /\ labels' = get_last_month_year_labels(today)
  /\ UNCHANGED <<today, date_range>>
  /\ UnchangedExcept({"clock", "label"})

\* retrieve_loan_field_data: start_date, end_date = get_last_month_date_range()
GetLastMonthDateRange ==
  /\ date_range = <<>>
  /\ date_range' = get_last_month_date_range(today)
  /\ UNCHANGED <<today, labels>>
  /\ UnchangedExcept({"clock", "label"})

LabelNext == GetLastMonthYearLabels \/ GetLastMonthDateRange

SpecLabels == LabelInit /\ [][LabelNext]_vars

\* the calendar month before the month of the run
PreviousMonth ==
  IF today.m = 1 THEN [y |-> today.y - 1, m |-> 12] ELSE [y |-> today.y, m |-> today.m - 1]

\* C29: on every run date the month and year labels name the calendar month
\* just before the month of the run, which is the month of the funding
\* window [first day, last day of last month] of the retriever.
C29_LabelsNamePreviousMonth ==
  /\ labels # <<>> =>
       /\ labels.month = MonthNames[PreviousMonth.m]
       /\ labels.year = PreviousMonth.y
  /\ date_range # <<>> =>
       /\ date_range.first = Date(PreviousMonth.y, PreviousMonth.m, 1)
       /\ date_range.last = Date(PreviousMonth.y, PreviousMonth.m,
                                 DaysInMonth(PreviousMonth.y, PreviousMonth.m))
  /\ (labels # <<>> /\ date_range # <<>>) =>
       /\ labels.month = MonthNames[date_range.first.m]
       /\ labels.year = date_range.first.y


(***************************************************************************)
(* Totals of the per-branch table (report_3/tables.py                      *)
(* generate_closed_pulls_by_branch_table) against the per-officer table.   *)
(***************************************************************************)

\* C30: the per-branch table conserves the per-officer totals: its Closed
\* Loans add up to the Closed Loans of all officer rows, and its Credit Pulls
\* to the Credit Pulls of all officer rows, also for officers with pulls but
\* no closed loan or with no recorded branch.
C30_BranchTotalsConserved ==
  (merged.err = "none" /\ branch_table.err = "none") =>
    LET officers == DOMAIN merged.rows
        branches == branch_table.rows
    IN /\ SumOver(branches, [b \in branches |-> b.closed])
            = SumOver(officers, [i \in officers |-> merged.rows[i].closed])
       /\ SumOver(branches, [b \in branches |-> b.pulls])
            = SumOver(officers, [i \in officers |-> merged.rows[i].pulls])

====
